---- MODULE Spec2Model ----
(***************************************************************************)
(* The NuVerse session backend (server/index.js): socket.io handlers       *)
(* client:joinGame, client:createCard, client:moveCard,                    *)
(* client:playCardAction and disconnect, run against a MySQL pool.         *)
(*                                                                         *)
(* Every handler is an async function: it runs atomically between two      *)
(* awaits, and every await is one database query.  One action of the model *)
(* is one query together with the synchronous code that follows it up to   *)
(* the next await (the continuation of the await).  Handlers of different  *)
(* requests interleave at these points.  Any query may fail; the handler's *)
(* catch block then emits 'error' to the calling socket.                   *)
(*                                                                         *)
(* A table is the sequence of its rows in insertion order; the             *)
(* AUTO_INCREMENT key of a row is its index.  A nullable value is <<>>     *)
(* (NULL) or <<v>>.                                                        *)
(***************************************************************************)
EXTENDS Integers, Sequences, FiniteSets, TLC

VARIABLES users, game_sessions, cards, player_cards, combat_log,
          player_sessions, rooms, connected, inbox, tasks

vars == <<users, game_sessions, cards, player_cards, combat_log,
          player_sessions, rooms, connected, inbox, tasks>>

db == <<users, game_sessions, cards, player_cards, combat_log, player_sessions>>

\* ---------------------------------------------------------------- bounds

\* The number of requests (handler invocations) of one behaviour.
MaxRequests == 2

\* The number of client connections.
NumConns == 2

\* The number of card definitions beyond the limit of the catalog query
\* that a store may hold.
CatalogMargin == 2

\* ---------------------------------------------------------------- inputs

Conns == 1..NumConns

Usernames == {"alice", "bob"}

SessionNames == {"arena1", "table-7"}

\* The numeric session ids a client may cite in create, move and play.
SessionIds == {1, 2}

\* The instance ids a client may cite in move and play.
PlayerCardIds == {1, 2}

Null == <<>>

Some(v) == <<v>>

\* The card-data objects of client:createCard.
CardDatas ==
    { [card_name |-> "Fire Bolt", is_active |-> TRUE],
      [card_name |-> "Shield", is_active |-> FALSE] }

NoCardData == [card_name |-> "", is_active |-> FALSE]

\* The destinations of client:moveCard: destinationLocation,
\* destinationSlotId, isActive.
MoveTargets ==
    { [location |-> "battlefield", slot_id |-> Some(3), is_active |-> TRUE],
      [location |-> "Hand", slot_id |-> Null, is_active |-> FALSE] }

NoTarget == [location |-> "", slot_id |-> Null, is_active |-> FALSE]

\* The prior zones a client may cite (oldLocation).
OldLocations == {"Hand"}

\* ---------------------------------------------------------------- store

\* LIMIT 50 of the catalog query.
CatalogLimit == 50

\* player_cards.is_active is not named by the INSERT of createCard: the
\* column default applies.
PlayerCardsDefaultIsActive == FALSE

Min(a, b) == IF a < b THEN a ELSE b

Indices(table) == 1..Len(table)

\* A lookup that finds no user.
SelectUsersMisses(username) == {}

\* SELECT user_id FROM users WHERE username = ?
SelectUsers(username) == {i \in Indices(users) : users[i] = username}

\* A lookup that finds no session.
SelectSessionsMisses(name) == {}

\* SELECT session_id FROM game_sessions WHERE session_name = ?
SelectSessions(name) ==
    {i \in Indices(game_sessions) : game_sessions[i].session_name = name}

\* One row of SELECT pc.*, c.* FROM player_cards pc JOIN cards c ON
\* pc.card_id = c.card_id.  mysql2 builds one object per row keyed by column
\* name, so of two columns with one name the later one (of c.*) is kept:
\* card_id and is_active are those of cards.
JoinRow(i) ==
    LET p == player_cards[i]
        c == cards[p.card_id]
    IN  [player_card_id |-> i,
         user_id        |-> p.user_id,
         session_id     |-> p.session_id,
         location       |-> p.location,
         slot_id        |-> p.slot_id,
         card_id        |-> p.card_id,
         card_name      |-> c.card_name,
         is_active      |-> c.is_active]

\* The indices of a set of rows in key order, as a sequence.
RECURSIVE InOrder(_)
InOrder(S) ==
    IF S = {} THEN <<>>
    ELSE LET m == CHOOSE x \in S : \A y \in S : x <= y
         IN  <<m>> \o InOrder(S \ {m})

\* The permutations of a finite set, as sequences.
RECURSIVE Perms(_)
Perms(S) ==
    IF S = {} THEN {<<>>}
    ELSE UNION {{<<x>> \o q : q \in Perms(S \ {x})} : x \in S}

\* The catalog query without its LIMIT.
SelectCatalogUnlimited ==
    [k \in 1..Len(cards) |-> [card_id |-> k] @@ cards[k]]

\* SELECT * FROM cards ORDER BY card_id ASC LIMIT 50
SelectCatalog ==
    [k \in 1..Min(Len(cards), CatalogLimit) |-> [card_id |-> k] @@ cards[k]]

\* The join without its WHERE clause.
SelectAllCards(sid) ==
    LET S == {i \in Indices(player_cards) :
                 player_cards[i].card_id \in Indices(cards)}
        order == InOrder(S)
    IN  [k \in 1..Len(order) |-> JoinRow(order[k])]

\* SELECT pc.*, c.* ... WHERE pc.session_id = ?  (an inner join: an instance
\* without its definition row is no row of the result).
SelectSessionCards(sid) ==
    LET S == {i \in Indices(player_cards) :
                 /\ player_cards[i].session_id = sid
                 /\ player_cards[i].card_id \in Indices(cards)}
        order == InOrder(S)
    IN  [k \in 1..Len(order) |-> JoinRow(order[k])]

\* SELECT pc.*, c.* ... WHERE pc.player_card_id = ?
SelectCardById(id) ==
    IF id \in Indices(player_cards) /\ player_cards[id].card_id \in Indices(cards)
    THEN <<JoinRow(id)>>
    ELSE <<>>

\* SELECT * FROM combat_log WHERE session_id = ? ORDER BY action_timestamp
\* ASC: every order of the session's rows that is ascending in the
\* timestamp (rows of one timestamp come in any order).
SelectLog(sid) ==
    LET S == {i \in Indices(combat_log) : combat_log[i].session_id = sid}
    IN  {[k \in 1..Len(q) |-> [log_id |-> q[k]] @@ combat_log[q[k]]] :
            q \in {p \in Perms(S) :
                     \A a, b \in 1..Len(p) :
                        a < b => combat_log[p[a]].action_timestamp
                                   <= combat_log[p[b]].action_timestamp}}

\* action_timestamp is not named by the INSERTs: the column takes the
\* current time of the store, which never runs backwards and may not have
\* advanced since the previous row.
Timestamps ==
    IF combat_log = <<>> THEN {1}
    ELSE LET last == combat_log[Len(combat_log)].action_timestamp
         IN  {last, last + 1}

\* INSERT INTO combat_log (session_id, user_id, card_id, action_type,
\* action_description)
LogRow(sid, user_id, card_id, action_type, ts) ==
    [session_id |-> sid, user_id |-> user_id, card_id |-> card_id,
     action_type |-> action_type, action_timestamp |-> ts]

\* The WHERE clause without its player_card_id condition.
UpdateMatchesAnyCard(playerCardId, user_id, sid) ==
    {i \in Indices(player_cards) :
        /\ playerCardId \in Indices(player_cards)
        /\ player_cards[i].user_id = user_id
        /\ player_cards[i].session_id = sid}

\* The WHERE clause without its owner condition.
UpdateMatchesAnyOwner(playerCardId, user_id, sid) ==
    {i \in Indices(player_cards) :
        /\ i = playerCardId
        /\ player_cards[i].session_id = sid}

\* UPDATE player_cards SET location = ?, slot_id = ?, is_active = ?
\* WHERE player_card_id = ? AND user_id = ? AND session_id = ?: the rows
\* the WHERE clause matches.
UpdateMatches(playerCardId, user_id, sid) ==
    {i \in Indices(player_cards) :
        /\ i = playerCardId
        /\ player_cards[i].user_id = user_id
        /\ player_cards[i].session_id = sid}

\* An UPDATE whose SET clause lacks is_active.
UpdatePlayerCardsKeepsActive(playerCardId, user_id, sid, location, slot_id, is_active) ==
    [i \in Indices(player_cards) |->
        IF i \in UpdateMatches(playerCardId, user_id, sid)
        THEN [player_cards[i] EXCEPT !.location = location,
                                     !.slot_id = slot_id]
        ELSE player_cards[i]]

\* The table after the UPDATE.
UpdatePlayerCards(playerCardId, user_id, sid, location, slot_id, is_active) ==
    [i \in Indices(player_cards) |->
        IF i \in UpdateMatches(playerCardId, user_id, sid)
        THEN [player_cards[i] EXCEPT !.location = location,
                                     !.slot_id = slot_id,
                                     !.is_active = is_active]
        ELSE player_cards[i]]

\* ------------------------------------------------------------- transport

Event(name, t, payload) == [name |-> name, task |-> t, payload |-> payload]

\* The sockets of a room (the adapter's rooms map).
Members(room) == {c \in Conns : <<room, c>> \in rooms}

\* io.emit(name, payload) in the place of socket.emit.
EmitToEveryone(ib, c, ev) ==
    [d \in Conns |-> IF d \in connected THEN Append(ib[d], ev) ELSE ib[d]]

\* socket.emit(name, payload): a closed socket drops the packet.
EmitTo(ib, c, ev) ==
    [d \in Conns |->
        IF d = c /\ d \in connected THEN Append(ib[d], ev) ELSE ib[d]]

\* io.emit(name, payload): to every socket.
EmitAll(ib, room, ev) ==
    [d \in Conns |-> IF d \in connected THEN Append(ib[d], ev) ELSE ib[d]]

\* io.to(room).emit(name, payload): once to every socket of the room.
EmitRoom(ib, room, ev) ==
    [d \in Conns |->
        IF d \in Members(room) /\ d \in connected
        THEN Append(ib[d], ev) ELSE ib[d]]

\* An emit to the room that does not leave out the sender.
EmitOthersAndSender(ib, c, room, ev) ==
    [d \in Conns |->
        IF d \in Members(room) /\ d \in connected
        THEN Append(ib[d], ev) ELSE ib[d]]

\* socket.to(room).emit(name, payload): the room without the sender.
EmitOthers(ib, c, room, ev) ==
    [d \in Conns |->
        IF d \in Members(room) /\ d \in connected /\ d # c
        THEN Append(ib[d], ev) ELSE ib[d]]

\* ------------------------------------------------------------- handlers

\* The payload of a client event, with the socket it arrives on.  A field
\* the event does not carry holds the empty value of its kind.
JoinRequest(c, sessionName, userId) ==
    [kind |-> "join", conn |-> c, sessionName |-> sessionName, sessionId |-> 0,
     userId |-> userId, cardData |-> NoCardData, playerCardId |-> 0,
     oldLocation |-> "", dest |-> NoTarget]

CreateRequest(c, sessionId, userId, cardData) ==
    [kind |-> "create", conn |-> c, sessionName |-> "", sessionId |-> sessionId,
     userId |-> userId, cardData |-> cardData, playerCardId |-> 0,
     oldLocation |-> "", dest |-> NoTarget]

MoveRequest(c, sessionId, userId, playerCardId, oldLocation, dest) ==
    [kind |-> "move", conn |-> c, sessionName |-> "", sessionId |-> sessionId,
     userId |-> userId, cardData |-> NoCardData, playerCardId |-> playerCardId,
     oldLocation |-> oldLocation, dest |-> dest]

PlayRequest(c, sessionId, userId, playerCardId, oldLocation) ==
    [kind |-> "play", conn |-> c, sessionName |-> "", sessionId |-> sessionId,
     userId |-> userId, cardData |-> NoCardData, playerCardId |-> playerCardId,
     oldLocation |-> oldLocation, dest |-> NoTarget]

\* A handler invocation: the request, the position of the handler (the
\* query it awaits), the way it returned, and its local variables.
\* scripted marks a request of the setup script; after holds the handlers
\* that had returned when this one started.
NewTask(req, scripted) ==
    [kind |-> req.kind, conn |-> req.conn, pc |-> "selectUser", exit |-> "",
     scripted |-> scripted,
     after |-> {t \in Indices(tasks) : tasks[t].pc = "done"},
     sessionName |-> req.sessionName, sessionId |-> req.sessionId,
     userId |-> req.userId, cardData |-> req.cardData,
     playerCardId |-> req.playerCardId, oldLocation |-> req.oldLocation,
     dest |-> req.dest,
     user_id |-> 0, numerical_session_id |-> 0, newCardId |-> 0,
     newPlayerCardId |-> 0,
     allCardDefinitions |-> <<>>, sessionPlayerCards |-> <<>>,
     updatedCardRows |-> <<>>]

\* The handler returns: its locals are dropped.
Finish(task, exit) ==
    [task EXCEPT !.pc = "done", !.exit = exit,
                 !.allCardDefinitions = <<>>, !.sessionPlayerCards = <<>>,
                 !.updatedCardRows = <<>>]

Running(t, kind, pc) ==
    /\ t \in Indices(tasks)
    /\ tasks[t].kind = kind
    /\ tasks[t].pc = pc

\* {...base, ...cardData}: a key of cardData replaces the key of base.
Spread(base, cardData) ==
    [k \in DOMAIN base \cup DOMAIN cardData |->
        IF k \in DOMAIN cardData THEN cardData[k] ELSE base[k]]

Init ==
    /\ users = <<>>
    /\ game_sessions = <<>>
    /\ cards = <<>>
    /\ player_cards = <<>>
    /\ combat_log = <<>>
    /\ player_sessions = <<>>
    /\ rooms = {}
    /\ connected = Conns
    /\ inbox = [c \in Conns |-> <<>>]
    /\ tasks = <<>>

\* ----------------------------------------------------------- the clients
\* The clients first play a setup script, or a prefix of it: one request
\* after the other, each handler running to its end without a failing
\* query.  After that they send up to MaxRequests requests of their own
\* choice, at any time, so that the handlers of these overlap.

AllDone == \A t \in Indices(tasks) : tasks[t].pc = "done"

FreeRequests == {t \in Indices(tasks) : ~tasks[t].scripted}

\* The next request of the setup script arrives.
ScriptedRequest(script) ==
    /\ FreeRequests = {}
    /\ AllDone
    /\ connected = Conns
    /\ Len(tasks) < Len(script)
    /\ tasks' = Append(tasks, NewTask(script[Len(tasks) + 1], TRUE))
    /\ UNCHANGED <<db, rooms, connected, inbox>>

\* A request of the client's own choice may arrive on socket c.
CanReceive(c) ==
    /\ c \in connected
    /\ \A t \in Indices(tasks) : tasks[t].scripted => tasks[t].pc = "done"
    /\ Cardinality(FreeRequests) < MaxRequests

\* socket.on('client:joinGame', ...): the handler starts and awaits its
\* first query.
ClientJoinGame(c, sessionName, userId) ==
    /\ CanReceive(c)
    /\ tasks' = Append(tasks, NewTask(JoinRequest(c, sessionName, userId), FALSE))
    /\ UNCHANGED <<db, rooms, connected, inbox>>

\* socket.on('client:createCard', ...)
ClientCreateCard(c, sessionId, userId, cardData) ==
    /\ CanReceive(c)
    /\ tasks' = Append(tasks, NewTask(CreateRequest(c, sessionId, userId,
                                                    cardData), FALSE))
    /\ UNCHANGED <<db, rooms, connected, inbox>>

\* socket.on('client:moveCard', ...)
ClientMoveCard(c, sessionId, userId, playerCardId, oldLocation, dest) ==
    /\ CanReceive(c)
    /\ tasks' = Append(tasks, NewTask(MoveRequest(c, sessionId, userId,
                                                  playerCardId, oldLocation,
                                                  dest), FALSE))
    /\ UNCHANGED <<db, rooms, connected, inbox>>

\* socket.on('client:playCardAction', ...)
ClientPlayCardAction(c, sessionId, userId, playerCardId, oldLocation) ==
    /\ CanReceive(c)
    /\ tasks' = Append(tasks, NewTask(PlayRequest(c, sessionId, userId,
                                                  playerCardId, oldLocation),
                                      FALSE))
    /\ UNCHANGED <<db, rooms, connected, inbox>>

\* A disconnect handler that tells the rooms of the socket that it left.
DisconnectAnnounced(c) ==
    /\ c \in connected
    /\ \A t \in Indices(tasks) : tasks[t].scripted => tasks[t].pc = "done"
    /\ connected' = connected \ {c}
    /\ rooms' = {m \in rooms : m[2] # c}
    /\ inbox' = [d \in Conns |->
                    IF /\ d \in connected \ {c}
                       /\ \E room \in SessionIds :
                             {<<room, c>>, <<room, d>>} \subseteq rooms
                    THEN Append(inbox[d], Event("server:playerLeft", 0, c))
                    ELSE inbox[d]]
    /\ UNCHANGED <<db, tasks>>

\* socket.on('disconnect', ...): the handler only logs; the transport has
\* removed the socket from its rooms.
Disconnect(c) ==
    /\ c \in connected
    /\ \A t \in Indices(tasks) : tasks[t].scripted => tasks[t].pc = "done"
    /\ connected' = connected \ {c}
    /\ rooms' = {m \in rooms : m[2] # c}
    /\ UNCHANGED <<db, inbox, tasks>>

\* The message of a handler's catch block.
CatchMessage(kind) ==
    CASE kind = "join" -> "Failed to join game. See server logs for details."
      [] kind = "create" -> "Failed to create card. See server logs for details."
      [] kind = "move" -> "Failed to move card. See server logs for details."
      [] kind = "play" -> "Failed to play card. See server logs for details."

\* A catch block that also takes the socket out of its rooms.
QueryErrorLeavesRooms(t) ==
    /\ t \in Indices(tasks)
    /\ ~tasks[t].scripted
    /\ tasks[t].pc # "done"
    /\ inbox' = [d \in Conns |->
                    IF d = tasks[t].conn /\ d \in connected
                    THEN Append(inbox[d],
                                Event("error", t, CatchMessage(tasks[t].kind)))
                    ELSE inbox[d]]
    /\ rooms' = {m \in rooms : m[2] # tasks[t].conn}
    /\ tasks' = [tasks EXCEPT ![t] = Finish(@, "caught")]
    /\ UNCHANGED <<db, connected>>

\* A query rejects: the catch block of the handler emits 'error' to the
\* calling socket.
QueryError(t) ==
    /\ t \in Indices(tasks)
    /\ ~tasks[t].scripted
    /\ tasks[t].pc # "done"
    /\ inbox' = EmitTo(inbox, tasks[t].conn,
                       Event("error", t, CatchMessage(tasks[t].kind)))
    /\ tasks' = [tasks EXCEPT ![t] = Finish(@, "caught")]
    /\ UNCHANGED <<db, rooms, connected>>

\* users.username, game_sessions.session_name and the pair of
\* player_sessions are unique in the data model.  Where the store enforces
\* that with a unique key, the INSERT of a second row rejects, and the catch
\* block runs; where it does not, the INSERT below succeeds.
DuplicateKey(task) ==
    \/ /\ task.pc = "insertUser"
       /\ SelectUsers(task.userId) # {}
    \/ /\ task.pc = "insertSession"
       /\ SelectSessions(task.sessionName) # {}
    \/ /\ task.pc = "insertPlayerSession"
       /\ \E i \in Indices(player_sessions) :
             /\ player_sessions[i].user_id = task.user_id
             /\ player_sessions[i].session_id = task.numerical_session_id

DuplicateKeyError(t) ==
    /\ t \in Indices(tasks)
    /\ DuplicateKey(tasks[t])
    /\ inbox' = EmitTo(inbox, tasks[t].conn,
                       Event("error", t, CatchMessage(tasks[t].kind)))
    /\ tasks' = [tasks EXCEPT ![t] = Finish(@, "caught")]
    /\ UNCHANGED <<db, rooms, connected>>

\* ------------------------------------------------------ client:joinGame

\* Step 1: SELECT user_id FROM users WHERE username = ?; users[0] is used
\* when a row is found.
JoinSelectUser(t) ==
    /\ Running(t, "join", "selectUser")
    /\ LET found == SelectUsers(tasks[t].userId)
       IN  IF found = {}
           THEN tasks' = [tasks EXCEPT ![t].pc = "insertUser"]
           ELSE \E i \in found :
                   tasks' = [tasks EXCEPT ![t].user_id = i,
                                          ![t].pc = "selectSession"]
    /\ UNCHANGED <<db, rooms, connected, inbox>>

\* An insert that takes the row of the username when there is one by now
\* (an upsert).
JoinInsertUserIfAbsent(t) ==
    /\ Running(t, "join", "insertUser")
    /\ LET found == SelectUsers(tasks[t].userId)
       IN  IF found = {}
           THEN /\ users' = Append(users, tasks[t].userId)
                /\ tasks' = [tasks EXCEPT ![t].user_id = Len(users) + 1,
                                          ![t].pc = "selectSession"]
           ELSE /\ \E i \in found :
                      tasks' = [tasks EXCEPT ![t].user_id = i,
                                             ![t].pc = "selectSession"]
                /\ UNCHANGED users
    /\ UNCHANGED <<game_sessions, cards, player_cards, combat_log,
                   player_sessions, rooms, connected, inbox>>

\* INSERT INTO users (username) VALUES (?); user_id = insertId.
JoinInsertUser(t) ==
    /\ Running(t, "join", "insertUser")
    /\ users' = Append(users, tasks[t].userId)
    /\ tasks' = [tasks EXCEPT ![t].user_id = Len(users) + 1,
                              ![t].pc = "selectSession"]
    /\ UNCHANGED <<game_sessions, cards, player_cards, combat_log,
                   player_sessions, rooms, connected, inbox>>

\* A session resolution that leaves the socket out of the room of the
\* session it finds.
JoinSelectSessionWithoutRoom(t) ==
    /\ Running(t, "join", "selectSession")
    /\ LET found == SelectSessions(tasks[t].sessionName)
       IN  IF found = {}
           THEN tasks' = [tasks EXCEPT ![t].pc = "insertSession"]
           ELSE \E i \in found :
                   tasks' = [tasks EXCEPT ![t].numerical_session_id = i,
                                          ![t].pc = "fetchCatalog"]
    /\ UNCHANGED <<db, rooms, connected, inbox>>

\* Step 2: SELECT session_id FROM game_sessions WHERE session_name = ?;
\* when a row is found, step 3: socket.join(numerical_session_id).
JoinSelectSession(t) ==
    /\ Running(t, "join", "selectSession")
    /\ LET found == SelectSessions(tasks[t].sessionName)
       IN  IF found = {}
           THEN /\ tasks' = [tasks EXCEPT ![t].pc = "insertSession"]
                /\ UNCHANGED rooms
           ELSE \E i \in found :
                   /\ tasks' = [tasks EXCEPT ![t].numerical_session_id = i,
                                             ![t].pc = "fetchCatalog"]
                   /\ rooms' = rooms \cup {<<i, tasks[t].conn>>}
    /\ UNCHANGED <<db, connected, inbox>>

\* INSERT INTO game_sessions (gm_user_id, session_name); then step 3:
\* socket.join(numerical_session_id).
JoinInsertSession(t) ==
    /\ Running(t, "join", "insertSession")
    /\ game_sessions' = Append(game_sessions,
                               [session_name |-> tasks[t].sessionName,
                                gm_user_id |-> tasks[t].user_id])
    /\ tasks' = [tasks EXCEPT ![t].numerical_session_id = Len(game_sessions) + 1,
                              ![t].pc = "fetchCatalog"]
    /\ rooms' = rooms \cup {<<Len(game_sessions) + 1, tasks[t].conn>>}
    /\ UNCHANGED <<users, cards, player_cards, combat_log, player_sessions,
                   connected, inbox>>

\* Step 4: SELECT * FROM cards ORDER BY card_id ASC LIMIT 50
JoinFetchCatalog(t) ==
    /\ Running(t, "join", "fetchCatalog")
    /\ tasks' = [tasks EXCEPT ![t].allCardDefinitions = SelectCatalog,
                              ![t].pc = "fetchCards"]
    /\ UNCHANGED <<db, rooms, connected, inbox>>

\* SELECT pc.*, c.* FROM player_cards pc JOIN cards c ... WHERE
\* pc.session_id = ?
JoinFetchCards(t) ==
    /\ Running(t, "join", "fetchCards")
    /\ tasks' = [tasks EXCEPT
                   ![t].sessionPlayerCards =
                       SelectSessionCards(tasks[t].numerical_session_id),
                   ![t].pc = "fetchLog"]
    /\ UNCHANGED <<db, rooms, connected, inbox>>

\* The gameState object of the handler.
GameState(task, combatLogEntries) ==
    [sessionId |-> task.numerical_session_id,
     sessionName |-> task.sessionName,
     players |-> <<[userId |-> task.userId, username |-> "TestUser"]>>,
     allCardDefinitions |->
        [k \in 1..Len(task.allCardDefinitions) |->
            [card_id |-> task.allCardDefinitions[k].card_id,
             card_name |-> task.allCardDefinitions[k].card_name]],
     cards |->
        [k \in 1..Len(task.sessionPlayerCards) |->
            LET pc == task.sessionPlayerCards[k]
            IN  [card_id |-> pc.card_id,
                 player_card_id |-> pc.player_card_id,
                 ownerId |-> pc.user_id,
                 location |-> pc.location,
                 slot_id |-> pc.slot_id,
                 is_active |-> pc.is_active,
                 card_name |-> pc.card_name]],
     combatLog |->
        [k \in 1..Len(combatLogEntries) |->
            LET log == combatLogEntries[k]
            IN  [logId |-> log.log_id, userId |-> log.user_id,
                 cardId |-> log.card_id, actionType |-> log.action_type,
                 timestamp |-> log.action_timestamp]]]

\* SELECT * FROM combat_log WHERE session_id = ? ORDER BY action_timestamp
\* ASC; then socket.emit('server:gameState', gameState) and
\* socket.to(numerical_session_id).emit('server:playerJoined', ...).
JoinFetchLog(t) ==
    /\ Running(t, "join", "fetchLog")
    /\ \E combatLogEntries \in SelectLog(tasks[t].numerical_session_id) :
          LET task == tasks[t]
              sent == EmitTo(inbox, task.conn,
                             Event("server:gameState", t,
                                   GameState(task, combatLogEntries)))
          IN  inbox' = EmitOthers(sent, task.conn, task.numerical_session_id,
                                  Event("server:playerJoined", t,
                                        [userId |-> task.userId,
                                         username |-> "TestUser"]))
    /\ tasks' = [tasks EXCEPT ![t].pc = "selectPlayerSession"]
    /\ UNCHANGED <<db, rooms, connected>>

\* Step 5: SELECT * FROM player_sessions WHERE user_id = ? AND session_id = ?
JoinSelectPlayerSession(t) ==
    /\ Running(t, "join", "selectPlayerSession")
    /\ LET playerSessions ==
               {i \in Indices(player_sessions) :
                   /\ player_sessions[i].user_id = tasks[t].user_id
                   /\ player_sessions[i].session_id = tasks[t].numerical_session_id}
       IN  IF playerSessions = {}
           THEN tasks' = [tasks EXCEPT ![t].pc = "insertPlayerSession"]
           ELSE tasks' = [tasks EXCEPT ![t] = Finish(@, "ok")]
    /\ UNCHANGED <<db, rooms, connected, inbox>>

\* INSERT INTO player_sessions (user_id, session_id) VALUES (?, ?)
JoinInsertPlayerSession(t) ==
    /\ Running(t, "join", "insertPlayerSession")
    /\ player_sessions' = Append(player_sessions,
                                 [user_id |-> tasks[t].user_id,
                                  session_id |-> tasks[t].numerical_session_id])
    /\ tasks' = [tasks EXCEPT ![t] = Finish(@, "ok")]
    /\ UNCHANGED <<users, game_sessions, cards, player_cards, combat_log,
                   rooms, connected, inbox>>

\* ---------------------------------------------------- client:createCard

\* SELECT user_id FROM users WHERE username = ?
CreateSelectUser(t) ==
    /\ Running(t, "create", "selectUser")
    /\ LET found == SelectUsers(tasks[t].userId)
       IN  IF found = {}
           THEN tasks' = [tasks EXCEPT ![t].pc = "insertUser"]
           ELSE \E i \in found :
                   tasks' = [tasks EXCEPT ![t].user_id = i,
                                          ![t].pc = "insertCard"]
    /\ UNCHANGED <<db, rooms, connected, inbox>>

\* INSERT INTO users (username) VALUES (?)
CreateInsertUser(t) ==
    /\ Running(t, "create", "insertUser")
    /\ users' = Append(users, tasks[t].userId)
    /\ tasks' = [tasks EXCEPT ![t].user_id = Len(users) + 1,
                              ![t].pc = "insertCard"]
    /\ UNCHANGED <<game_sessions, cards, player_cards, combat_log,
                   player_sessions, rooms, connected, inbox>>

\* The row of INSERT INTO cards (card_name, ..., is_active, ...).
CardRow(cardData) ==
    [card_name |-> cardData.card_name, is_active |-> cardData.is_active]

CreateInsertCard(t) ==
    /\ Running(t, "create", "insertCard")
    /\ cards' = Append(cards, CardRow(tasks[t].cardData))
    /\ tasks' = [tasks EXCEPT ![t].newCardId = Len(cards) + 1,
                              ![t].pc = "insertPlayerCard"]
    /\ UNCHANGED <<users, game_sessions, player_cards, combat_log,
                   player_sessions, rooms, connected, inbox>>

\* An instance row that takes the active flag of the card data.
NewPlayerCardActiveAsGiven(task) ==
    [user_id |-> task.user_id, card_id |-> task.newCardId,
     session_id |-> task.sessionId, location |-> "CreatedCardStorage",
     slot_id |-> Null, is_active |-> task.cardData.is_active]

\* The row of INSERT INTO player_cards (user_id, card_id, session_id,
\* location, slot_id) VALUES (user_id, newCardId, numerical_session_id,
\* 'CreatedCardStorage', null).
NewPlayerCard(task) ==
    [user_id |-> task.user_id, card_id |-> task.newCardId,
     session_id |-> task.sessionId, location |-> "CreatedCardStorage",
     slot_id |-> Null, is_active |-> PlayerCardsDefaultIsActive]

\* A create that broadcasts right after its instance insert, before the
\* log insert.
CreateInsertPlayerCardAndEmit(t) ==
    /\ Running(t, "create", "insertPlayerCard")
    /\ player_cards' = Append(player_cards, NewPlayerCard(tasks[t]))
    /\ tasks' = [tasks EXCEPT ![t].newPlayerCardId = Len(player_cards) + 1,
                              ![t].pc = "insertLog"]
    /\ inbox' = EmitRoom(inbox, tasks[t].sessionId,
                         Event("server:cardCreated", t,
                               Spread([card_id |-> tasks[t].newCardId,
                                       player_card_id |-> Len(player_cards) + 1,
                                       ownerId |-> tasks[t].userId,
                                       location |-> "CreatedCardStorage",
                                       slot_id |-> Null,
                                       is_active |-> FALSE],
                                      tasks[t].cardData)))
    /\ UNCHANGED <<users, game_sessions, cards, combat_log, player_sessions,
                   rooms, connected>>

CreateInsertPlayerCard(t) ==
    /\ Running(t, "create", "insertPlayerCard")
    /\ player_cards' = Append(player_cards, NewPlayerCard(tasks[t]))
    /\ tasks' = [tasks EXCEPT ![t].newPlayerCardId = Len(player_cards) + 1,
                              ![t].pc = "insertLog"]
    /\ UNCHANGED <<users, game_sessions, cards, combat_log, player_sessions,
                   rooms, connected, inbox>>

\* The fullNewCard object of the handler.
FullNewCard(task) ==
    Spread([card_id |-> task.newCardId,
            player_card_id |-> task.newPlayerCardId,
            ownerId |-> task.userId,
            location |-> "CreatedCardStorage",
            slot_id |-> Null,
            is_active |-> FALSE],
           task.cardData)

\* The sockets socket.to(room).emit would reach.
CreateAudienceWithoutSender(task) ==
    (Members(task.sessionId) \cap connected) \ {task.conn}

\* The sockets io.to(room).emit reaches from the create handler.
CreateAudience(task) == Members(task.sessionId) \cap connected

\* INSERT INTO combat_log ... 'Card Created'; then
\* io.to(numerical_session_id).emit('server:cardCreated', fullNewCard).
CreateInsertLog(t) ==
    /\ Running(t, "create", "insertLog")
    /\ \E ts \in Timestamps :
          combat_log' = Append(combat_log,
                               LogRow(tasks[t].sessionId, tasks[t].user_id,
                                      tasks[t].newCardId, "Card Created", ts))
    /\ inbox' = [d \in Conns |->
                    IF d \in CreateAudience(tasks[t])
                    THEN Append(inbox[d], Event("server:cardCreated", t,
                                                FullNewCard(tasks[t])))
                    ELSE inbox[d]]
    /\ tasks' = [tasks EXCEPT ![t] = Finish(@, "ok")]
    /\ UNCHANGED <<users, game_sessions, cards, player_cards, player_sessions,
                   rooms, connected>>

\* ------------------------------------------------------ client:moveCard

\* A move that creates the user it does not find, as join and create do.
MoveSelectOrInsertUser(t) ==
    /\ Running(t, "move", "selectUser")
    /\ LET found == SelectUsers(tasks[t].userId)
       IN  IF found = {}
           THEN /\ users' = Append(users, tasks[t].userId)
                /\ tasks' = [tasks EXCEPT ![t].user_id = Len(users) + 1,
                                          ![t].pc = "update"]
           ELSE /\ \E i \in found :
                      tasks' = [tasks EXCEPT ![t].user_id = i,
                                             ![t].pc = "update"]
                /\ UNCHANGED users
    /\ UNCHANGED <<game_sessions, cards, player_cards, combat_log,
                   player_sessions, rooms, connected, inbox>>

\* Step 1: SELECT user_id FROM users WHERE username = ?; without a row the
\* handler emits 'error' and returns.
MoveSelectUser(t) ==
    /\ Running(t, "move", "selectUser")
    /\ LET found == SelectUsers(tasks[t].userId)
       IN  IF found = {}
           THEN /\ inbox' = EmitTo(inbox, tasks[t].conn,
                                   Event("error", t,
                                         "User not authenticated for card move."))
                /\ tasks' = [tasks EXCEPT ![t] = Finish(@, "rejected")]
           ELSE /\ \E i \in found :
                      tasks' = [tasks EXCEPT ![t].user_id = i,
                                             ![t].pc = "update"]
                /\ UNCHANGED inbox
    /\ UNCHANGED <<db, rooms, connected>>

\* The values the UPDATE of the move handler sets.
MoveValues(task) == task.dest

\* Step 2: UPDATE player_cards SET ... WHERE player_card_id = ? AND
\* user_id = ? AND session_id = ?; affectedRows counts the matched rows
\* (mysql2 connects with FOUND_ROWS); with 0 the handler emits 'error'
\* and returns.
MoveUpdate(t) ==
    /\ Running(t, "move", "update")
    /\ LET task == tasks[t]
           affectedRows == Cardinality(UpdateMatches(task.playerCardId,
                                                     task.user_id,
                                                     task.sessionId))
           v == MoveValues(task)
       IN  /\ player_cards' = UpdatePlayerCards(task.playerCardId, task.user_id,
                                                task.sessionId, v.location,
                                                v.slot_id, v.is_active)
           /\ IF affectedRows = 0
              THEN /\ inbox' = EmitTo(inbox, task.conn,
                                      Event("error", t,
                                            "Failed to move card (card not found or permission denied)."))
                   /\ tasks' = [tasks EXCEPT ![t] = Finish(@, "rejected")]
              ELSE /\ tasks' = [tasks EXCEPT ![t].pc = "refetch"]
                   /\ UNCHANGED inbox
    /\ UNCHANGED <<users, game_sessions, cards, combat_log, player_sessions,
                   rooms, connected>>

\* Step 3: SELECT pc.*, c.* ... WHERE pc.player_card_id = ?; without a row
\* the handler emits 'error' and returns.
MoveRefetch(t) ==
    /\ Running(t, "move", "refetch")
    /\ LET updatedCardRows == SelectCardById(tasks[t].playerCardId)
       IN  IF updatedCardRows = <<>>
           THEN /\ inbox' = EmitTo(inbox, tasks[t].conn,
                                   Event("error", t,
                                         "Failed to retrieve moved card data."))
                /\ tasks' = [tasks EXCEPT ![t] = Finish(@, "rejected")]
           ELSE /\ tasks' = [tasks EXCEPT ![t].updatedCardRows = updatedCardRows,
                                          ![t].pc = "insertLog"]
                /\ UNCHANGED inbox
    /\ UNCHANGED <<db, rooms, connected>>

\* An updatedCardData whose location is the prior zone of the request.
UpdatedCardDataOldZone(task) ==
    LET row == task.updatedCardRows[1]
    IN  [card_id |-> row.card_id,
         player_card_id |-> row.player_card_id,
         ownerId |-> task.userId,
         location |-> task.oldLocation,
         slot_id |-> row.slot_id,
         is_active |-> row.is_active,
         card_name |-> row.card_name,
         oldLocation |-> task.oldLocation]

\* An updatedCardData whose prior zone is read from the refetched row.
UpdatedCardDataPriorFromRow(task) ==
    LET row == task.updatedCardRows[1]
    IN  [card_id |-> row.card_id,
         player_card_id |-> row.player_card_id,
         ownerId |-> task.userId,
         location |-> row.location,
         slot_id |-> row.slot_id,
         is_active |-> row.is_active,
         card_name |-> row.card_name,
         oldLocation |-> row.location]

\* The updatedCardData object of the move handler.
UpdatedCardData(task) ==
    LET row == task.updatedCardRows[1]
    IN  [card_id |-> row.card_id,
         player_card_id |-> row.player_card_id,
         ownerId |-> task.userId,
         location |-> row.location,
         slot_id |-> row.slot_id,
         is_active |-> row.is_active,
         card_name |-> row.card_name,
         oldLocation |-> task.oldLocation]

\* Step 4: INSERT INTO combat_log ... 'Card Moved'; step 5:
\* io.to(sessionId).emit('server:cardMoved', updatedCardData).
MoveInsertLog(t) ==
    /\ Running(t, "move", "insertLog")
    /\ \E ts \in Timestamps :
          combat_log' = Append(combat_log,
                               LogRow(tasks[t].sessionId, tasks[t].user_id,
                                      UpdatedCardData(tasks[t]).card_id,
                                      "Card Moved", ts))
    /\ inbox' = EmitRoom(inbox, tasks[t].sessionId,
                         Event("server:cardMoved", t, UpdatedCardData(tasks[t])))
    /\ tasks' = [tasks EXCEPT ![t] = Finish(@, "ok")]
    /\ UNCHANGED <<users, game_sessions, cards, player_cards, player_sessions,
                   rooms, connected>>

\* ------------------------------------------------ client:playCardAction

\* Step 1: SELECT user_id FROM users WHERE username = ?
PlaySelectUser(t) ==
    /\ Running(t, "play", "selectUser")
    /\ LET found == SelectUsers(tasks[t].userId)
       IN  IF found = {}
           THEN /\ inbox' = EmitTo(inbox, tasks[t].conn,
                                   Event("error", t,
                                         "User not authenticated for playing card."))
                /\ tasks' = [tasks EXCEPT ![t] = Finish(@, "rejected")]
           ELSE /\ \E i \in found :
                      tasks' = [tasks EXCEPT ![t].user_id = i,
                                             ![t].pc = "update"]
                /\ UNCHANGED inbox
    /\ UNCHANGED <<db, rooms, connected>>

\* A play that moves the card to the discard pile and leaves it active.
PlayValuesKeepActive(task) ==
    [location |-> "DiscardPile", slot_id |-> Null, is_active |-> TRUE]

\* The values the UPDATE of the play handler sets: 'DiscardPile', null,
\* false.
PlayValues(task) ==
    [location |-> "DiscardPile", slot_id |-> Null, is_active |-> FALSE]

\* Step 2: the UPDATE of the play handler.
PlayUpdate(t) ==
    /\ Running(t, "play", "update")
    /\ LET task == tasks[t]
           affectedRows == Cardinality(UpdateMatches(task.playerCardId,
                                                     task.user_id,
                                                     task.sessionId))
           v == PlayValues(task)
       IN  /\ player_cards' = UpdatePlayerCards(task.playerCardId, task.user_id,
                                                task.sessionId, v.location,
                                                v.slot_id, v.is_active)
           /\ IF affectedRows = 0
              THEN /\ inbox' = EmitTo(inbox, task.conn,
                                      Event("error", t,
                                            "Failed to play card (card not found or permission denied)."))
                   /\ tasks' = [tasks EXCEPT ![t] = Finish(@, "rejected")]
              ELSE /\ tasks' = [tasks EXCEPT ![t].pc = "refetch"]
                   /\ UNCHANGED inbox
    /\ UNCHANGED <<users, game_sessions, cards, combat_log, player_sessions,
                   rooms, connected>>

\* Step 3: the refetch of the play handler.
PlayRefetch(t) ==
    /\ Running(t, "play", "refetch")
    /\ LET updatedCardRows == SelectCardById(tasks[t].playerCardId)
       IN  IF updatedCardRows = <<>>
           THEN /\ inbox' = EmitTo(inbox, tasks[t].conn,
                                   Event("error", t,
                                         "Failed to retrieve played card data."))
                /\ tasks' = [tasks EXCEPT ![t] = Finish(@, "rejected")]
           ELSE /\ tasks' = [tasks EXCEPT ![t].updatedCardRows = updatedCardRows,
                                          ![t].pc = "insertLog"]
                /\ UNCHANGED inbox
    /\ UNCHANGED <<db, rooms, connected>>

\* A playedCardData whose location is the prior zone of the request.
PlayedCardDataOldZone(task) ==
    LET row == task.updatedCardRows[1]
    IN  [card_id |-> row.card_id,
         player_card_id |-> row.player_card_id,
         ownerId |-> task.userId,
         location |-> task.oldLocation,
         slot_id |-> row.slot_id,
         is_active |-> row.is_active,
         card_name |-> row.card_name,
         oldLocation |-> task.oldLocation]

\* The playedCardData object of the play handler.
PlayedCardData(task) ==
    LET row == task.updatedCardRows[1]
    IN  [card_id |-> row.card_id,
         player_card_id |-> row.player_card_id,
         ownerId |-> task.userId,
         location |-> row.location,
         slot_id |-> row.slot_id,
         is_active |-> row.is_active,
         card_name |-> row.card_name,
         oldLocation |-> task.oldLocation]

\* A play that broadcasts without its log insert.
PlayBroadcastWithoutLog(t) ==
    /\ Running(t, "play", "insertLog")
    /\ inbox' = EmitRoom(inbox, tasks[t].sessionId,
                         Event("server:cardPlayed", t, PlayedCardData(tasks[t])))
    /\ tasks' = [tasks EXCEPT ![t] = Finish(@, "ok")]
    /\ UNCHANGED <<db, rooms, connected>>

\* Step 4: INSERT INTO combat_log ... 'Card Played'; step 5:
\* io.to(sessionId).emit('server:cardPlayed', playedCardData).
PlayInsertLog(t) ==
    /\ Running(t, "play", "insertLog")
    /\ \E ts \in Timestamps :
          combat_log' = Append(combat_log,
                               LogRow(tasks[t].sessionId, tasks[t].user_id,
                                      PlayedCardData(tasks[t]).card_id,
                                      "Card Played", ts))
    /\ inbox' = EmitRoom(inbox, tasks[t].sessionId,
                         Event("server:cardPlayed", t, PlayedCardData(tasks[t])))
    /\ tasks' = [tasks EXCEPT ![t] = Finish(@, "ok")]
    /\ UNCHANGED <<users, game_sessions, cards, player_cards, player_sessions,
                   rooms, connected>>

\* ------------------------------------------------------- specification

JoinSteps(t) ==
    \/ JoinSelectUser(t)
    \/ JoinInsertUser(t)
    \/ JoinSelectSession(t)
    \/ JoinInsertSession(t)
    \/ JoinFetchCatalog(t)
    \/ JoinFetchCards(t)
    \/ JoinFetchLog(t)
    \/ JoinSelectPlayerSession(t)
    \/ JoinInsertPlayerSession(t)

CreateSteps(t) ==
    \/ CreateSelectUser(t)
    \/ CreateInsertUser(t)
    \/ CreateInsertCard(t)
    \/ CreateInsertPlayerCard(t)
    \/ CreateInsertLog(t)

MoveSteps(t) ==
    \/ MoveSelectUser(t)
    \/ MoveUpdate(t)
    \/ MoveRefetch(t)
    \/ MoveInsertLog(t)

PlaySteps(t) ==
    \/ PlaySelectUser(t)
    \/ PlayUpdate(t)
    \/ PlayRefetch(t)
    \/ PlayInsertLog(t)

\* The scenario of the specification: alice joins arena1 and creates a
\* card, bob joins arena1, alice moves the card to the battlefield.
Scenario ==
    << JoinRequest(1, "arena1", "alice"),
       CreateRequest(1, 1, "alice", [card_name |-> "Fire Bolt", is_active |-> TRUE]),
       JoinRequest(2, "arena1", "bob"),
       MoveRequest(1, 1, "alice", 1, "CreatedCardStorage",
                   [location |-> "battlefield", slot_id |-> Some(3),
                    is_active |-> TRUE]) >>

\* The scripts have four requests.
TaskIds == 1..(Len(Scenario) + MaxRequests)

\* The username a client cites when it does not pose as another user.
UserOf(c) == IF c = 1 THEN "alice" ELSE "bob"

\* Joins and creates of any client under any username, from the empty
\* store.
NextJoin ==
    \/ \E c \in Conns, n \in SessionNames, u \in Usernames :
          ClientJoinGame(c, n, u)
    \/ \E c \in Conns, u \in Usernames :
          ClientCreateCard(c, 1, u, [card_name |-> "Fire Bolt", is_active |-> TRUE])
    \/ \E t \in TaskIds : JoinSteps(t) \/ CreateSteps(t) \/ DuplicateKeyError(t)

SpecJoin == Init /\ [][NextJoin]_vars

\* alice joins arena1 and creates a card in it, bob joins table-7 and
\* creates a card in it.
TwoSessions ==
    << JoinRequest(1, "arena1", "alice"),
       CreateRequest(1, 1, "alice", [card_name |-> "Fire Bolt", is_active |-> TRUE]),
       JoinRequest(2, "table-7", "bob"),
       CreateRequest(2, 2, "bob", [card_name |-> "Shield", is_active |-> FALSE]) >>

\* Creates in any session and joins, after a prefix of TwoSessions.
NextCreate ==
    \/ ScriptedRequest(TwoSessions)
    \/ \E c \in Conns, n \in SessionNames : ClientJoinGame(c, n, UserOf(c))
    \/ \E c \in Conns, s \in SessionIds, d \in CardDatas :
          ClientCreateCard(c, s, UserOf(c), d)
    \/ \E t \in TaskIds : JoinSteps(t) \/ CreateSteps(t)

SpecCreate == Init /\ [][NextCreate]_vars

\* Moves and plays after a prefix of the scenario.
NextMove ==
    \/ ScriptedRequest(Scenario)
    \/ \E c \in Conns, s \in SessionIds, p \in PlayerCardIds,
          o \in OldLocations, d \in MoveTargets :
          ClientMoveCard(c, s, UserOf(c), p, o, d)
    \/ \E c \in Conns, s \in SessionIds, p \in PlayerCardIds,
          o \in OldLocations :
          ClientPlayCardAction(c, s, UserOf(c), p, o)
    \/ \E t \in TaskIds :
          \/ JoinSteps(t)
          \/ CreateSelectUser(t)
          \/ CreateInsertCard(t)
          \/ CreateInsertPlayerCard(t)
          \/ CreateInsertLog(t)
          \/ MoveSteps(t)
          \/ PlaySteps(t)

SpecMove == Init /\ [][NextMove]_vars

\* Every kind of request after a prefix of the scenario, with failing
\* queries and disconnecting clients.
Next ==
    \/ ScriptedRequest(Scenario)
    \/ \E c \in Conns : ClientJoinGame(c, "arena1", UserOf(c))
    \/ \E c \in Conns :
          ClientCreateCard(c, 1, UserOf(c),
                           [card_name |-> "Shield", is_active |-> FALSE])
    \/ \E c \in Conns :
          ClientMoveCard(c, 1, UserOf(c), 1, "Hand",
                         [location |-> "Hand", slot_id |-> Null,
                          is_active |-> FALSE])
    \/ \E c \in Conns : ClientPlayCardAction(c, 1, UserOf(c), 1, "Hand")
    \/ \E t \in TaskIds :
          \/ JoinSteps(t)
          \/ CreateSteps(t)
          \/ MoveSteps(t)
          \/ PlaySteps(t)
          \/ QueryError(t)
    \/ \E c \in Conns : Disconnect(c)

Spec == Init /\ [][Next]_vars

\* Every query of a handler eventually returns or rejects: a handler that
\* awaits a query eventually takes its next step or runs its catch block.
\* Clients need not send requests nor disconnect.
SpecLive ==
    /\ Spec
    /\ \A t \in TaskIds :
          WF_vars(JoinSteps(t) \/ CreateSteps(t) \/ MoveSteps(t)
                     \/ PlaySteps(t) \/ QueryError(t))

\* The store of an earlier run of the server: alice has joined arena1 and
\* table-7 and has created n cards, in the two sessions in turn; the log
\* is empty.
Stocked(n) ==
    /\ users = <<"alice">>
    /\ game_sessions = <<[session_name |-> "arena1", gm_user_id |-> 1],
                         [session_name |-> "table-7", gm_user_id |-> 1]>>
    /\ player_sessions = <<[user_id |-> 1, session_id |-> 1],
                           [user_id |-> 1, session_id |-> 2]>>
    /\ cards = [k \in 1..n |->
                  CardRow([card_name |-> IF k % 2 = 1 THEN "Fire Bolt" ELSE "Shield",
                           is_active |-> (k % 2 = 1)])]
    /\ player_cards = [k \in 1..n |->
                         [user_id |-> 1, card_id |-> k,
                          session_id |-> IF k % 2 = 1 THEN 1 ELSE 2,
                          location |-> "CreatedCardStorage", slot_id |-> Null,
                          is_active |-> PlayerCardsDefaultIsActive]]
    /\ combat_log = <<>>

MaxCards == CatalogLimit + CatalogMargin

\* The server starts over a stocked store: no socket is in a room.
InitCatalog ==
    /\ \E n \in 0..MaxCards : Stocked(n)
    /\ rooms = {}
    /\ connected = Conns
    /\ inbox = [c \in Conns |-> <<>>]
    /\ tasks = <<>>

\* bob joins arena1, then alice joins table-7.
CatalogScript ==
    << JoinRequest(2, "arena1", "bob"), JoinRequest(1, "table-7", "alice") >>

NextCatalog ==
    \/ ScriptedRequest(CatalogScript)
    \/ \E t \in TaskIds :
          \/ JoinSelectUser(t)
          \/ JoinInsertUser(t)
          \/ JoinSelectSession(t)
          \/ JoinFetchCatalog(t)
          \/ JoinFetchCards(t)
          \/ JoinFetchLog(t)
          \/ JoinSelectPlayerSession(t)
          \/ JoinInsertPlayerSession(t)

SpecCatalog == InitCatalog /\ [][NextCatalog]_vars

\* ------------------------------------------------------------- claims

\* The positions in the inbox of connection c of the events of that name
\* that handler t emitted.
Received(c, name, t) ==
    {k \in 1..Len(inbox[c]) : inbox[c][k].name = name /\ inbox[c][k].task = t}

\* Handler t takes the step it awaits at pc.
Leaves(t, kind, pc) ==
    /\ Running(t, kind, pc)
    /\ tasks'[t].pc # pc

\* The move request of handler t names no instance, or an instance of
\* another owner than the resolved user, or of another session.
Unauthorized(task) ==
    \/ task.playerCardId \notin Indices(player_cards)
    \/ /\ task.playerCardId \in Indices(player_cards)
       /\ \/ player_cards[task.playerCardId].user_id # task.user_id
          \/ player_cards[task.playerCardId].session_id # task.sessionId

\* C1: a move whose resolved user is not the owner of the instance, or whose
\* session id is not the instance's, or whose instance does not exist, is
\* rejected at its UPDATE: no player_cards row and no combat_log row
\* changes, the handler returns with an 'error' to the calling socket and
\* to no other, and no socket ever receives a 'server:cardMoved' of it.
C1_MoveRejected ==
    /\ [][\A t \in TaskIds :
            (Leaves(t, "move", "update") /\ Unauthorized(tasks[t])) =>
               /\ player_cards' = player_cards
               /\ combat_log' = combat_log
               /\ tasks'[t].pc = "done"
               /\ tasks'[t].exit = "rejected"
               /\ \A c \in Conns :
                     IF c = tasks[t].conn /\ c \in connected
                     THEN /\ Len(inbox'[c]) = Len(inbox[c]) + 1
                          /\ SubSeq(inbox'[c], 1, Len(inbox[c])) = inbox[c]
                          /\ inbox'[c][Len(inbox'[c])].name = "error"
                          /\ inbox'[c][Len(inbox'[c])].task = t
                     ELSE inbox'[c] = inbox[c]]_vars
    /\ [](\A t \in Indices(tasks) :
            (tasks[t].kind = "move" /\ tasks[t].exit = "rejected") =>
               \A c \in Conns : Received(c, "server:cardMoved", t) = {})

\* Two moves were rejected: bob's move of alice's instance, and a move of an
\* existing instance citing another session than the instance's.
C1_Witness ==
    \E t, u \in Indices(tasks) :
       /\ tasks[t].kind = "move" /\ tasks[t].exit = "rejected"
       /\ tasks[t].user_id # 0
       /\ tasks[t].playerCardId \in Indices(player_cards)
       /\ player_cards[tasks[t].playerCardId].user_id # tasks[t].user_id
       /\ player_cards[tasks[t].playerCardId].session_id = tasks[t].sessionId
       /\ Received(tasks[t].conn, "error", t) # {}
       /\ tasks[u].kind = "move" /\ tasks[u].exit = "rejected"
       /\ tasks[u].playerCardId \in Indices(player_cards)
       /\ player_cards[tasks[u].playerCardId].user_id = tasks[u].user_id
       /\ player_cards[tasks[u].playerCardId].session_id # tasks[u].sessionId
       /\ Received(tasks[u].conn, "error", u) # {}

Discarded(row) ==
    /\ row.location = "DiscardPile"
    /\ row.slot_id = Null
    /\ row.is_active = FALSE

\* C4: the UPDATE of a play that matches the instance leaves it in
\* "DiscardPile" with slot null and active false, and afterwards the row of
\* an instance changes only in the UPDATE of a move or play of that
\* instance.
C4_PlayDiscards ==
    [][/\ \A t \in TaskIds :
             (Leaves(t, "play", "update") /\ tasks'[t].pc = "refetch") =>
                Discarded(player_cards'[tasks[t].playerCardId])
       /\ \A p \in Indices(player_cards) :
             player_cards'[p] # player_cards[p] =>
                \E t \in TaskIds :
                   /\ Leaves(t, "move", "update") \/ Leaves(t, "play", "update")
                   /\ tasks[t].playerCardId = p]_vars

\* A play has discarded the instance that the scenario's move had put on
\* the battlefield, slot 3, active.
C4_Witness ==
    \E t \in Indices(tasks) :
       /\ tasks[t].kind = "play" /\ tasks[t].exit = "ok"
       /\ tasks[t].playerCardId = 1
       /\ Len(tasks) > Len(Scenario)
       /\ tasks[Len(Scenario)].exit = "ok"
       /\ FreeRequests = {t}
       /\ Discarded(player_cards[1])

ReceivedIn(ib, c, name, t) ==
    {k \in 1..Len(ib[c]) : ib[c][k].name = name /\ ib[c][k].task = t}

\* C2: the broadcast of a create of session S delivers exactly one
\* 'server:cardCreated' to every socket that is in room S at that moment,
\* the creator's included, and none to a socket outside the room; no other
\* step delivers one.
C2_FanOut ==
    /\ [][\A t \in TaskIds :
            (Leaves(t, "create", "insertLog") /\ tasks'[t].exit = "ok") =>
               \A c \in Conns :
                  Cardinality(ReceivedIn(inbox', c, "server:cardCreated", t))
                     = IF c \in Members(tasks[t].sessionId) /\ c \in connected
                       THEN 1 ELSE 0]_vars
    /\ [][\A t \in Indices(tasks), c \in Conns :
            ReceivedIn(inbox', c, "server:cardCreated", t)
                  # ReceivedIn(inbox, c, "server:cardCreated", t) =>
               Leaves(t, "create", "insertLog")]_vars

\* Socket 1 joined room 1 twice and got one event of its own create and one
\* of the create of socket 2; socket 2 never joined room 1 and got no event
\* of its create in session 1.
C2_Witness ==
    \E t \in Indices(tasks) :
       /\ tasks[t].kind = "create" /\ tasks[t].exit = "ok"
       /\ tasks[t].conn = 2 /\ tasks[t].sessionId = 1
       /\ <<1, 2>> \notin rooms
       /\ \A j \in Indices(tasks) : ~(tasks[j].kind = "join" /\ tasks[j].conn = 2)
       /\ Cardinality({j \in Indices(tasks) :
                          /\ tasks[j].kind = "join" /\ tasks[j].conn = 1
                          /\ tasks[j].numerical_session_id = 1
                          /\ tasks[j].exit = "ok"}) = 2
       /\ Cardinality(Received(1, "server:cardCreated", t)) = 1
       /\ Received(2, "server:cardCreated", t) = {}
       /\ tasks[2].kind = "create" /\ tasks[2].conn = 1
       /\ Cardinality(Received(1, "server:cardCreated", 2)) = 1

\* The instances and the log rows of session sid.
InstancesOf(sid) ==
    {i \in Indices(player_cards) : player_cards[i].session_id = sid}

LogOf(sid) == {i \in Indices(combat_log) : combat_log[i].session_id = sid}

Ascending(log) ==
    \A a, b \in 1..Len(log) : a < b => log[a].timestamp <= log[b].timestamp

\* C3: the instances a join fetches are exactly the instances persisted for
\* its session at that moment; the snapshot it then emits holds exactly the
\* fetched instances, and exactly the log rows of the session, each once,
\* in ascending order of the timestamp.
C3_Snapshot ==
    [][\A t \in TaskIds :
          /\ Leaves(t, "join", "fetchCards") =>
                {tasks'[t].sessionPlayerCards[k].player_card_id :
                    k \in 1..Len(tasks'[t].sessionPlayerCards)}
                   = InstancesOf(tasks[t].numerical_session_id)
          /\ (Leaves(t, "join", "fetchLog") /\ tasks[t].conn \in connected) =>
                LET got == inbox'[tasks[t].conn]
                    ev == got[Len(got)]
                    fetched == tasks[t].sessionPlayerCards
                    sid == tasks[t].numerical_session_id
                IN  /\ Len(got) = Len(inbox[tasks[t].conn]) + 1
                    /\ ev.name = "server:gameState" /\ ev.task = t
                    /\ ev.payload.sessionId = sid
                    /\ Len(ev.payload.cards) = Len(fetched)
                    /\ \A k \in 1..Len(fetched) :
                          /\ ev.payload.cards[k].player_card_id
                                = fetched[k].player_card_id
                          /\ fetched[k].session_id = sid
                    /\ {ev.payload.combatLog[k].logId :
                           k \in 1..Len(ev.payload.combatLog)} = LogOf(sid)
                    /\ Len(ev.payload.combatLog) = Cardinality(LogOf(sid))
                    /\ Ascending(ev.payload.combatLog)]_vars

\* A snapshot of a session with two instances and two log rows, the second
\* later than the first, was received while another session has an instance
\* and a log row.
C3_Witness ==
    \E c \in Conns : \E k \in 1..Len(inbox[c]) :
       LET ev == inbox[c][k]
       IN  /\ ev.name = "server:gameState"
           /\ Len(ev.payload.cards) = 2
           /\ Len(ev.payload.combatLog) = 2
           /\ ev.payload.combatLog[1].timestamp < ev.payload.combatLog[2].timestamp
           /\ \E i \in Indices(player_cards) :
                 player_cards[i].session_id # ev.payload.sessionId
           /\ \E i \in Indices(combat_log) :
                 combat_log[i].session_id # ev.payload.sessionId

Sequential(S) == \A a, b \in S : a < b => a \in tasks[b].after

\* The handlers that resolve username u, creating the user when absent.
Resolvers(u) ==
    {t \in Indices(tasks) :
        tasks[t].kind \in {"join", "create"} /\ tasks[t].userId = u}

\* C5: when the joins and creates citing a username run one after the
\* other, they all resolve it to the same user id and there is exactly one
\* users row of that name.
C5_ResolveTwice ==
    \A u \in Usernames :
       Sequential(Resolvers(u)) =>
          /\ Cardinality(SelectUsers(u)) <= 1
          /\ \A a \in Resolvers(u) :
                tasks[a].user_id # 0 =>
                   /\ SelectUsers(u) = {tasks[a].user_id}
                   /\ \A b \in Resolvers(u) :
                         tasks[b].user_id # 0 => tasks[b].user_id = tasks[a].user_id

\* A join and then a create of one username, in sequence, resolved it to
\* the same id.
C5_Witness ==
    \E a, b \in Indices(tasks) :
       /\ tasks[a].kind = "join" /\ tasks[b].kind = "create"
       /\ tasks[a].userId = tasks[b].userId
       /\ a \in tasks[b].after
       /\ tasks[a].exit = "ok" /\ tasks[b].exit = "ok"
       /\ tasks[a].user_id = tasks[b].user_id
       /\ tasks[a].conn # tasks[b].conn
       /\ Cardinality(SelectUsers(tasks[a].userId)) = 1

\* The joins of session name n.
Joiners(n) ==
    {t \in Indices(tasks) : tasks[t].kind = "join" /\ tasks[t].sessionName = n}

\* The session ids of the snapshots that join t delivered.
SnapshotIds(t) ==
    {inbox[tasks[t].conn][k].payload.sessionId :
        k \in Received(tasks[t].conn, "server:gameState", t)}

\* C6: when the joins of a session name run one after the other, there is
\* one game_sessions row of that name, every snapshot carries its id, and
\* every joiner's socket is in the room of that id.
C6_JoinTwice ==
    \A n \in SessionNames :
       Sequential(Joiners(n)) =>
          /\ Cardinality(SelectSessions(n)) <= 1
          /\ \A a \in Joiners(n) :
                tasks[a].numerical_session_id # 0 =>
                   /\ SelectSessions(n) = {tasks[a].numerical_session_id}
                   /\ SnapshotIds(a) \subseteq {tasks[a].numerical_session_id}
                   /\ tasks[a].pc = "done" /\ tasks[a].exit = "ok" =>
                         SnapshotIds(a) # {}
                   /\ tasks[a].conn \in connected =>
                         <<tasks[a].numerical_session_id, tasks[a].conn>> \in rooms

\* Two users joined one session name in sequence from two sockets: both
\* snapshots carry the same session id and both sockets are in its room.
C6_Witness ==
    \E a, b \in Indices(tasks) :
       /\ tasks[a].kind = "join" /\ tasks[b].kind = "join"
       /\ tasks[a].sessionName = tasks[b].sessionName
       /\ tasks[a].userId # tasks[b].userId
       /\ tasks[a].conn # tasks[b].conn
       /\ a \in tasks[b].after
       /\ tasks[b].exit = "ok"
       /\ SnapshotIds(a) # {}
       /\ SnapshotIds(a) = SnapshotIds(b)
       /\ \A c \in Conns : <<tasks[a].numerical_session_id, c>> \in rooms

\* C7: there is at most one game_sessions row per session name, and two
\* joins of one name are never put in two rooms.
C7_OneSessionPerName ==
    /\ \A n \in SessionNames : Cardinality(SelectSessions(n)) <= 1
    /\ \A a, b \in Indices(tasks) :
          ( /\ tasks[a].kind = "join" /\ tasks[b].kind = "join"
            /\ tasks[a].sessionName = tasks[b].sessionName
            /\ tasks[a].numerical_session_id # 0
            /\ tasks[b].numerical_session_id # 0 ) =>
             tasks[a].numerical_session_id = tasks[b].numerical_session_id

\* C8: the emit step of a join delivers 'server:gameState' to the joining
\* socket only, and 'server:playerJoined' to every other socket of the
\* room and not to the joining socket; no other step delivers either.
C8_JoinEmits ==
    /\ [][\A t \in TaskIds :
            Leaves(t, "join", "fetchLog") =>
               \A c \in Conns :
                  /\ Cardinality(ReceivedIn(inbox', c, "server:gameState", t))
                        = IF c = tasks[t].conn /\ c \in connected THEN 1 ELSE 0
                  /\ Cardinality(ReceivedIn(inbox', c, "server:playerJoined", t))
                        = IF /\ c # tasks[t].conn
                             /\ c \in Members(tasks[t].numerical_session_id)
                             /\ c \in connected
                          THEN 1 ELSE 0]_vars
    /\ [][\A t \in Indices(tasks), c \in Conns :
            ( \/ ReceivedIn(inbox', c, "server:gameState", t)
                    # ReceivedIn(inbox, c, "server:gameState", t)
              \/ ReceivedIn(inbox', c, "server:playerJoined", t)
                    # ReceivedIn(inbox, c, "server:playerJoined", t) ) =>
               Leaves(t, "join", "fetchLog")]_vars

\* A socket joined a room in which the other socket already was: the joiner
\* got the snapshot and no notice, the other socket the notice and no
\* snapshot of that join.
C8_Witness ==
    \E t \in Indices(tasks) : \E c \in Conns :
       /\ tasks[t].kind = "join" /\ tasks[t].exit = "ok"
       /\ c # tasks[t].conn
       /\ Cardinality(Received(tasks[t].conn, "server:gameState", t)) = 1
       /\ Received(tasks[t].conn, "server:playerJoined", t) = {}
       /\ Cardinality(Received(c, "server:playerJoined", t)) = 1
       /\ Received(c, "server:gameState", t) = {}

RoomEvents ==
    {"server:playerJoined", "server:cardCreated", "server:cardMoved",
     "server:cardPlayed"}

\* The session whose room an event was emitted to.
RoomOf(ev) ==
    IF ev.name = "server:playerJoined"
    THEN tasks[ev.task].numerical_session_id
    ELSE tasks[ev.task].sessionId

\* C9: a socket that received a room event of session S has, before that,
\* passed the join-room step of a join that resolved to S; and a socket
\* receives nothing once it has disconnected.
C9_RoomEvents ==
    /\ [](\A c \in Conns : \A k \in 1..Len(inbox[c]) :
            inbox[c][k].name \in RoomEvents =>
               \E j \in Indices(tasks) :
                  /\ tasks[j].kind = "join"
                  /\ tasks[j].conn = c
                  /\ tasks[j].numerical_session_id # 0
                  /\ tasks[j].numerical_session_id = RoomOf(inbox[c][k]))
    /\ [][\A c \in Conns : inbox'[c] # inbox[c] => c \in connected]_vars

\* bob's socket joined room 1 and disconnected; a later move or play in
\* session 1 was broadcast to alice's socket and not to bob's.
C9_Witness ==
    \E t, j \in Indices(tasks) :
       /\ tasks[t].kind \in {"move", "play"} /\ tasks[t].exit = "ok"
       /\ tasks[j].kind = "join" /\ tasks[j].conn = 2 /\ tasks[j].exit = "ok"
       /\ tasks[j].numerical_session_id = tasks[t].sessionId
       /\ j \in tasks[t].after
       /\ 2 \notin connected
       /\ \E k \in 1..Len(inbox[1]) :
             inbox[1][k].task = t /\ inbox[1][k].name \in RoomEvents
       /\ \A k \in 1..Len(inbox[2]) : inbox[2][k].task # t

\* C11: every 'server:cardCreated' payload carries location
\* "CreatedCardStorage", slot null, active false, and the ids the two
\* inserts of its create generated, whatever the card data holds.
C11_CreatedPayload ==
    \A c \in Conns : \A k \in 1..Len(inbox[c]) :
       inbox[c][k].name = "server:cardCreated" =>
          LET card == inbox[c][k].payload
              task == tasks[inbox[c][k].task]
          IN  /\ card.location = "CreatedCardStorage"
              /\ card.slot_id = Null
              /\ card.is_active = FALSE
              /\ card.card_id = task.newCardId
              /\ card.player_card_id = task.newPlayerCardId

\* C12: there is at most one player_sessions row per (user, session) pair.
C12_OnePlayerSession ==
    \A i, j \in Indices(player_sessions) :
       ( /\ player_sessions[i].user_id = player_sessions[j].user_id
         /\ player_sessions[i].session_id = player_sessions[j].session_id ) =>
          i = j

\* Handler t executes its INSERT INTO users, and the store accepts it.
InsertsUser(t) ==
    /\ Leaves(t, "join", "insertUser") \/ Leaves(t, "create", "insertUser")
    /\ tasks'[t].exit # "caught"

\* C13: the user insert of a join or create does not look the username up
\* again: it adds a users row of that name also when an overlapping
\* handler has inserted one since the lookup, so that two rows of one
\* username exist afterwards.
C13_DuplicateUser ==
    [][\A t \in TaskIds :
         InsertsUser(t) =>
            /\ users' = Append(users, tasks[t].userId)
            /\ tasks'[t].user_id = Len(users) + 1
            /\ SelectUsers(tasks[t].userId) # {} =>
                  \E i, j \in Indices(users') :
                     i # j /\ users'[i] = users'[j]]_vars

\* Two overlapping handlers, a join among them, cited one unseen username,
\* both inserted, and two users rows of that name exist.
C13_Witness ==
    \E a, b \in Indices(tasks) :
       /\ a # b
       /\ tasks[a].kind = "join"
       /\ tasks[a].userId = tasks[b].userId
       /\ a \notin tasks[b].after /\ b \notin tasks[a].after
       /\ tasks[a].user_id # 0 /\ tasks[b].user_id # 0
       /\ tasks[a].user_id # tasks[b].user_id
       /\ users[tasks[a].user_id] = tasks[a].userId
       /\ users[tasks[b].user_id] = tasks[a].userId
       /\ Cardinality(SelectUsers(tasks[a].userId)) = 2

\* The queries of the user resolution and the session resolution of a join.
ResolutionPcs == {"selectUser", "insertUser", "selectSession", "insertSession"}

\* C14: when a query of the user or session resolution of a join fails, the
\* step changes no room and delivers one 'error' to the joining socket and
\* nothing to any other; that join never delivers a snapshot or a
\* player-joined notice, and the socket is in no room but those of its
\* other joins.
C14_ResolutionError ==
    /\ [][\A t \in TaskIds :
            ( /\ Running(t, "join", tasks[t].pc)
              /\ tasks[t].pc \in ResolutionPcs
              /\ tasks'[t].exit = "caught" ) =>
               /\ rooms' = rooms
               /\ \A c \in Conns :
                     inbox'[c] =
                        IF c = tasks[t].conn /\ c \in connected
                        THEN Append(inbox[c],
                                    Event("error", t, CatchMessage("join")))
                        ELSE inbox[c]]_vars
    /\ [](\A t \in Indices(tasks) :
            ( /\ tasks[t].kind = "join"
              /\ tasks[t].exit = "caught"
              /\ tasks[t].numerical_session_id = 0 ) =>
               /\ \A c \in Conns :
                     /\ Received(c, "server:gameState", t) = {}
                     /\ Received(c, "server:playerJoined", t) = {}
                     /\ c # tasks[t].conn => Received(c, "error", t) = {}
               /\ \A m \in rooms :
                     m[2] = tasks[t].conn =>
                        \E j \in Indices(tasks) :
                           /\ j # t
                           /\ tasks[j].kind = "join"
                           /\ tasks[j].conn = m[2]
                           /\ tasks[j].numerical_session_id = m[1])

\* A join failed in its session resolution, after its user was resolved:
\* its socket is in no room and holds the error, the other socket is in a
\* room and holds nothing of that join.
C14_Witness ==
    \E t \in Indices(tasks) :
       /\ tasks[t].kind = "join" /\ tasks[t].exit = "caught"
       /\ tasks[t].user_id # 0
       /\ tasks[t].numerical_session_id = 0
       /\ tasks[t].conn \in connected
       /\ \A m \in rooms : m[2] # tasks[t].conn
       /\ \E m \in rooms : m[2] # tasks[t].conn
       /\ Cardinality(Received(tasks[t].conn, "error", t)) = 1
       /\ \A c \in Conns \ {tasks[t].conn} :
             \A k \in 1..Len(inbox[c]) : inbox[c][k].task # t

\* Handler t returns through an error: a rejection or its catch block.
Fails(t) ==
    /\ t \in Indices(tasks)
    /\ tasks[t].pc # "done"
    /\ tasks'[t].exit \in {"rejected", "caught"}

\* C15: a handler that returns through an error takes no socket out of a
\* room and disconnects none, and delivers its 'error' to its own socket
\* only; an 'error' in a socket's inbox is of a handler of that socket.
C15_ErrorFrame ==
    /\ [][\A t \in TaskIds :
            Fails(t) =>
               /\ rooms' = rooms
               /\ connected' = connected
               /\ \A c \in Conns :
                     IF c = tasks[t].conn /\ c \in connected
                     THEN /\ Len(inbox'[c]) = Len(inbox[c]) + 1
                          /\ SubSeq(inbox'[c], 1, Len(inbox[c])) = inbox[c]
                          /\ inbox'[c][Len(inbox'[c])].name = "error"
                          /\ inbox'[c][Len(inbox'[c])].task = t
                     ELSE inbox'[c] = inbox[c]]_vars
    /\ [](\A c \in Conns : \A k \in 1..Len(inbox[c]) :
            inbox[c][k].name = "error" => tasks[inbox[c][k].task].conn = c)

\* With both sockets in room 1, bob's move of alice's instance was rejected
\* and a create of alice failed: both sockets are still in the room and
\* each holds the error of its own handler only.
C15_Witness ==
    \E t, u \in Indices(tasks) :
       /\ tasks[t].kind = "move" /\ tasks[t].exit = "rejected"
       /\ tasks[t].conn = 2
       /\ tasks[u].kind = "create" /\ tasks[u].exit = "caught"
       /\ tasks[u].conn = 1
       /\ {<<1, 1>>, <<1, 2>>} \subseteq rooms
       /\ Received(2, "error", t) # {} /\ Received(1, "error", t) = {}
       /\ Received(1, "error", u) # {} /\ Received(2, "error", u) = {}

\* The action type of the log row of a handler, and its broadcast event.
ActionType(kind) ==
    CASE kind = "create" -> "Card Created"
      [] kind = "move" -> "Card Moved"
      [] kind = "play" -> "Card Played"
      [] OTHER -> ""

BroadcastName(kind) ==
    CASE kind = "create" -> "server:cardCreated"
      [] kind = "move" -> "server:cardMoved"
      [] kind = "play" -> "server:cardPlayed"
      [] OTHER -> ""

\* C16: combat_log only grows at its end; the step of a create, move or
\* play that broadcasts appends one row of the handler's session, user and
\* action, no other step of any handler appends a row (a rejected request
\* none), and a broadcast is delivered only in that step.
C16_AppendOnlyLog ==
    /\ [][\/ combat_log' = combat_log
          \/ /\ Len(combat_log') = Len(combat_log) + 1
             /\ SubSeq(combat_log', 1, Len(combat_log)) = combat_log]_vars
    /\ [][\A t \in TaskIds :
            (t \in Indices(tasks) /\ tasks'[t] # tasks[t]) =>
               IF tasks[t].kind # "join" /\ tasks'[t].exit = "ok"
               THEN /\ tasks[t].pc = "insertLog"
                    /\ Len(combat_log') = Len(combat_log) + 1
                    /\ LET row == combat_log'[Len(combat_log')]
                       IN  /\ row.session_id = tasks[t].sessionId
                           /\ row.user_id = tasks[t].user_id
                           /\ row.action_type = ActionType(tasks[t].kind)
               ELSE combat_log' = combat_log]_vars
    /\ [][\A t \in Indices(tasks), c \in Conns :
            ReceivedIn(inbox', c, BroadcastName(tasks[t].kind), t)
                  # ReceivedIn(inbox, c, BroadcastName(tasks[t].kind), t) =>
               /\ tasks[t].pc = "insertLog"
               /\ tasks'[t].exit = "ok"
               /\ Len(combat_log') = Len(combat_log) + 1]_vars

\* alice created, moved and played a card and a move of bob was rejected:
\* the log holds the rows of the create, the move and the play, one each.
C16_Witness ==
    \E m, p, r \in Indices(tasks) :
       /\ tasks[m].kind = "move" /\ tasks[m].exit = "ok"
       /\ tasks[p].kind = "play" /\ tasks[p].exit = "ok"
       /\ tasks[r].kind = "move" /\ tasks[r].exit = "rejected"
       /\ Received(1, "server:cardPlayed", p) # {}
       /\ Len(combat_log) = 3
       /\ {combat_log[k].action_type : k \in 1..3}
             = {"Card Created", "Card Moved", "Card Played"}

\* C17: a game_sessions row is added only by the session insert of a join
\* that cites a name no row has, with the joining user as gm_user_id; no
\* step changes or removes a row.
C17_SessionLifecycle ==
    [][\/ game_sessions' = game_sessions
       \/ \E t \in Indices(tasks) :
             /\ Leaves(t, "join", "insertSession")
             /\ SelectSessions(tasks[t].sessionName) = {}
             /\ game_sessions' =
                   Append(game_sessions,
                          [session_name |-> tasks[t].sessionName,
                           gm_user_id |-> tasks[t].user_id])]_vars

\* Request n of the scenario has been played and its handler has returned.
ScenarioDone(n) ==
    /\ Len(tasks) >= n
    /\ tasks[n].scripted
    /\ tasks[n].pc = "done"

\* A move of the scenario's instance by bob under his own username, sent
\* after the scenario.
BobsMove(t) ==
    /\ ScenarioDone(4)
    /\ t \in Indices(tasks)
    /\ ~tasks[t].scripted
    /\ tasks[t].kind = "move"
    /\ tasks[t].conn = 2
    /\ tasks[t].userId = "bob"
    /\ tasks[t].sessionId = 1
    /\ tasks[t].playerCardId = tasks[2].newPlayerCardId

\* C18: the scenario runs as stated: alice's snapshot of the new arena1 has
\* no instances and no log; alice receives the card-created of her create;
\* bob's snapshot holds that instance, and alice, not bob, receives the
\* player-joined; alice's move sets battlefield, slot 3, active, and alice
\* and bob receive its card-moved with the new zone; a later move of the
\* instance by bob is rejected with an error to bob, changes no instance
\* and delivers no card-moved.
C18_Scenario ==
    /\ [](ScenarioDone(1) =>
            /\ tasks[1].exit = "ok"
            /\ Received(1, "server:gameState", 1) = {1}
            /\ inbox[1][1].payload.sessionName = "arena1"
            /\ inbox[1][1].payload.cards = <<>>
            /\ inbox[1][1].payload.combatLog = <<>>)
    /\ [](ScenarioDone(2) =>
            /\ tasks[2].exit = "ok"
            /\ Cardinality(Received(1, "server:cardCreated", 2)) = 1)
    /\ [](ScenarioDone(3) =>
            /\ tasks[3].exit = "ok"
            /\ \E k \in Received(2, "server:gameState", 3) :
                  \E i \in 1..Len(inbox[2][k].payload.cards) :
                     /\ inbox[2][k].payload.cards[i].player_card_id
                           = tasks[2].newPlayerCardId
                     /\ inbox[2][k].payload.cards[i].card_name = "Fire Bolt"
            /\ Cardinality(Received(1, "server:playerJoined", 3)) = 1
            /\ Received(2, "server:playerJoined", 3) = {})
    /\ [][(Leaves(4, "move", "update") /\ tasks[4].scripted) =>
            /\ player_cards'[1].location = "battlefield"
            /\ player_cards'[1].slot_id = Some(3)
            /\ player_cards'[1].is_active = TRUE]_vars
    /\ [](ScenarioDone(4) =>
            /\ tasks[4].exit = "ok"
            /\ \A c \in {1, 2} :
                  /\ Cardinality(Received(c, "server:cardMoved", 4)) = 1
                  /\ \A k \in Received(c, "server:cardMoved", 4) :
                        /\ inbox[c][k].payload.location = "battlefield"
                        /\ inbox[c][k].payload.player_card_id
                              = tasks[2].newPlayerCardId)
    /\ [][\A t \in TaskIds :
            (BobsMove(t) /\ tasks'[t] # tasks[t]) =>
               player_cards' = player_cards]_vars
    /\ [](\A t \in Indices(tasks) :
            (BobsMove(t) /\ tasks[t].pc = "done") =>
               /\ tasks[t].exit = "rejected"
               /\ Cardinality(Received(2, "error", t)) = 1
               /\ \A c \in Conns : Received(c, "server:cardMoved", t) = {})

\* The scenario was played to its end and bob's move was rejected: the
\* instance is still on the battlefield in slot 3.
C18_Witness ==
    \E t \in Indices(tasks) :
       /\ BobsMove(t)
       /\ FreeRequests = {t}
       /\ tasks[t].exit = "rejected"
       /\ Received(2, "error", t) # {}
       /\ player_cards[1].location = "battlefield"
       /\ player_cards[1].slot_id = Some(3)
       /\ Received(2, "server:cardMoved", 4) # {}

\* C19: the step of a disconnect takes the socket out of every room, delivers
\* no event to any socket, and changes no row of any table and no handler.
C19_Disconnect ==
    [][\A c \in Conns :
         (c \in connected /\ c \notin connected') =>
            /\ connected' = connected \ {c}
            /\ rooms' = {m \in rooms : m[2] # c}
            /\ inbox' = inbox
            /\ users' = users
            /\ game_sessions' = game_sessions
            /\ player_sessions' = player_sessions
            /\ cards' = cards
            /\ player_cards' = player_cards
            /\ combat_log' = combat_log
            /\ tasks' = tasks]_vars

\* bob's socket was in room 1 with alice's and has disconnected: it is in
\* no room, alice's socket still is, and the rows of the scenario are there.
C19_Witness ==
    /\ 2 \notin connected
    /\ 1 \in connected
    /\ \E j \in Indices(tasks) :
          /\ tasks[j].kind = "join" /\ tasks[j].conn = 2
          /\ tasks[j].exit = "ok" /\ tasks[j].numerical_session_id = 1
    /\ \A m \in rooms : m[2] # 2
    /\ <<1, 1>> \in rooms
    /\ Len(users) = 2 /\ Len(player_sessions) = 2
    /\ Len(player_cards) = 1 /\ Len(combat_log) >= 1

\* C20: a move reaches its refetch only through its UPDATE, which has set
\* the row to the requested values, and its log insert only through the
\* refetch; it broadcasts in the step that appends its 'Card Moved' row, to
\* each socket of the room of the supplied session id once and to no
\* other, with oldLocation as the caller supplied it; no other step
\* delivers a 'server:cardMoved' of it.
C20_MoveOrder ==
    /\ [][\A t \in TaskIds :
            (Running(t, "move", tasks[t].pc) /\ tasks'[t].pc # tasks[t].pc) =>
               /\ tasks'[t].pc = "refetch" =>
                     /\ tasks[t].pc = "update"
                     /\ LET row == player_cards'[tasks[t].playerCardId]
                        IN  /\ row.location = tasks[t].dest.location
                            /\ row.slot_id = tasks[t].dest.slot_id
                            /\ row.is_active = tasks[t].dest.is_active
               /\ tasks'[t].pc = "insertLog" => tasks[t].pc = "refetch"
               /\ tasks'[t].exit = "ok" =>
                     /\ tasks[t].pc = "insertLog"
                     /\ Len(combat_log') = Len(combat_log) + 1
                     /\ combat_log'[Len(combat_log')].action_type = "Card Moved"
                     /\ combat_log'[Len(combat_log')].session_id = tasks[t].sessionId
                     /\ \A c \in Conns :
                           /\ Cardinality(ReceivedIn(inbox', c, "server:cardMoved", t))
                                 = IF /\ c \in Members(tasks[t].sessionId)
                                      /\ c \in connected
                                   THEN 1 ELSE 0
                           /\ \A k \in ReceivedIn(inbox', c, "server:cardMoved", t) :
                                 inbox'[c][k].payload.oldLocation
                                    = tasks[t].oldLocation]_vars
    /\ [][\A t \in Indices(tasks), c \in Conns :
            ReceivedIn(inbox', c, "server:cardMoved", t)
                  # ReceivedIn(inbox, c, "server:cardMoved", t) =>
               /\ tasks[t].pc = "insertLog"
               /\ tasks'[t].exit = "ok"]_vars

\* alice moved her instance from CreatedCardStorage to the battlefield
\* citing "Hand" as its prior zone: alice and bob hold the card-moved with
\* oldLocation "Hand".
C20_Witness ==
    /\ Len(tasks) = 4
    /\ ScenarioDone(3)
    /\ FreeRequests = {4}
    /\ tasks[4].kind = "move" /\ tasks[4].exit = "ok"
    /\ tasks[4].oldLocation = "Hand"
    /\ player_cards[1].location = "battlefield"
    /\ \A c \in {1, 2} :
          \E k \in Received(c, "server:cardMoved", 4) :
             /\ inbox[c][k].payload.oldLocation = "Hand"
             /\ inbox[c][k].payload.location = "battlefield"

\* The move request that a play request stands for.
AsMove(task) ==
    [task EXCEPT !.kind = "move",
                 !.dest = [location |-> "DiscardPile", slot_id |-> Null,
                           is_active |-> FALSE]]

\* The fields of a broadcast payload that describe the instance.
InstanceFields(card) ==
    [card_id |-> card.card_id, player_card_id |-> card.player_card_id,
     ownerId |-> card.ownerId, location |-> card.location,
     slot_id |-> card.slot_id, is_active |-> card.is_active,
     oldLocation |-> card.oldLocation]

\* The step delivers one 'error' of handler t to its socket and nothing else.
ErrorToCaller(t) ==
    \A c \in Conns :
       IF c = tasks[t].conn /\ c \in connected
       THEN /\ Len(inbox'[c]) = Len(inbox[c]) + 1
            /\ SubSeq(inbox'[c], 1, Len(inbox[c])) = inbox[c]
            /\ inbox'[c][Len(inbox'[c])].name = "error"
            /\ inbox'[c][Len(inbox'[c])].task = t
       ELSE inbox'[c] = inbox[c]

Placement(r) ==
    [location |-> r.location, slot_id |-> r.slot_id, is_active |-> r.is_active]

\* The placement the UPDATE of a move or play handler writes.
Written(task) ==
    IF task.kind = "move" THEN Placement(task.dest)
    ELSE [location |-> "DiscardPile", slot_id |-> Null, is_active |-> FALSE]

\* Handler t executes its UPDATE and the UPDATE matches a row.
Updates(t) ==
    /\ Leaves(t, "move", "update") \/ Leaves(t, "play", "update")
    /\ tasks'[t].pc = "refetch"

\* Handler t has executed its UPDATE with a matching row.
HasUpdated(t) ==
    /\ tasks[t].kind \in {"move", "play"}
    /\ \/ tasks[t].pc \in {"refetch", "insertLog"}
       \/ tasks[t].exit = "ok"

\* C22: an UPDATE that matches sets location, slot and active flag of the
\* instance to the three values of its request, and no other step changes
\* them: the placement of an instance is always the one it was created with
\* or the whole placement of one request whose UPDATE has run, the last one.
C22_LastWriteWins ==
    /\ [][\A t \in TaskIds :
            Updates(t) =>
               Placement(player_cards'[tasks[t].playerCardId]) = Written(tasks[t])]_vars
    /\ [][\A i \in Indices(player_cards) :
            Placement(player_cards'[i]) # Placement(player_cards[i]) =>
               \E t \in Indices(tasks) :
                  Updates(t) /\ tasks[t].playerCardId = i]_vars
    /\ [](\A i \in Indices(player_cards) :
            \/ Placement(player_cards[i])
                  = [location |-> "CreatedCardStorage", slot_id |-> Null,
                     is_active |-> FALSE]
            \/ \E t \in Indices(tasks) :
                  /\ HasUpdated(t)
                  /\ tasks[t].playerCardId = i
                  /\ Placement(player_cards[i]) = Written(tasks[t]))

\* Two overlapping handlers of alice, a move to the battlefield and a play,
\* both updated instance 1 and have returned: the row holds the placement
\* of one of them.
C22_Witness ==
    \E a, b \in Indices(tasks) :
       /\ tasks[a].kind = "move" /\ tasks[b].kind = "play"
       /\ tasks[a].dest.location = "battlefield"
       /\ tasks[a].playerCardId = 1 /\ tasks[b].playerCardId = 1
       /\ tasks[a].exit = "ok" /\ tasks[b].exit = "ok"
       /\ a \notin tasks[b].after /\ b \notin tasks[a].after
       /\ Placement(player_cards[1]) = Written(tasks[a])

\* The queries of a join after its join-room step and before its emits.
FetchPcs == {"fetchCatalog", "fetchCards", "fetchLog"}

\* Join t fails at one of its fetches.
FetchFails(t) ==
    /\ Running(t, "join", tasks[t].pc)
    /\ tasks[t].pc \in FetchPcs
    /\ tasks'[t].exit = "caught"

\* The room a handler broadcasts to when it returns without error.
BroadcastRoom(task) ==
    IF task.kind = "join" THEN task.numerical_session_id ELSE task.sessionId

\* C23: when a fetch of a join fails, the socket stays in the room it has
\* joined, holds no snapshot of that join then or later, and gets one
\* 'error'; every later broadcast to that room reaches the socket while it
\* is connected.
C23_FetchError ==
    /\ [][\A t \in TaskIds :
            FetchFails(t) =>
               /\ rooms' = rooms
               /\ tasks[t].conn \in connected =>
                     <<tasks[t].numerical_session_id, tasks[t].conn>> \in rooms'
               /\ ErrorToCaller(t)
               /\ \A c \in Conns :
                     ReceivedIn(inbox', c, "server:gameState", t) = {}]_vars
    /\ [][\A t \in Indices(tasks), c \in Conns :
            tasks[t].pc = "done" =>
               ReceivedIn(inbox', c, "server:gameState", t)
                  = ReceivedIn(inbox, c, "server:gameState", t)]_vars
    /\ [][\A t, u \in TaskIds :
            ( /\ t \in Indices(tasks)
              /\ tasks[t].kind = "join"
              /\ tasks[t].exit = "caught"
              /\ tasks[t].numerical_session_id # 0
              /\ tasks[t].conn \in connected
              /\ u \in Indices(tasks)
              /\ tasks[u].pc \in {"insertLog", "fetchLog"}
              /\ tasks[u].pc # tasks'[u].pc
              /\ tasks'[u].exit # "caught"
              /\ BroadcastRoom(tasks[u]) = tasks[t].numerical_session_id
              /\ tasks[u].kind = "join" => tasks[u].conn # tasks[t].conn ) =>
               \E k \in 1..Len(inbox'[tasks[t].conn]) :
                  /\ k > Len(inbox[tasks[t].conn])
                  /\ inbox'[tasks[t].conn][k].task = u
                  /\ inbox'[tasks[t].conn][k].name \in RoomEvents]_vars

\* bob's only join failed at a fetch: his socket is in room 1 without a
\* snapshot, holds the error, and holds the room event of a handler of
\* alice that started afterwards.
C23_Witness ==
    \E t, u \in Indices(tasks) :
       /\ tasks[t].kind = "join" /\ tasks[t].conn = 2
       /\ tasks[t].exit = "caught"
       /\ tasks[t].numerical_session_id = 1
       /\ \A j \in Indices(tasks) : tasks[j].conn = 2 => j = t
       /\ 2 \in connected
       /\ <<1, 2>> \in rooms
       /\ Received(2, "error", t) # {}
       /\ \A k \in 1..Len(inbox[2]) : inbox[2][k].name # "server:gameState"
       /\ tasks[u].conn = 1 /\ t \in tasks[u].after
       /\ \E k \in 1..Len(inbox[2]) :
             inbox[2][k].task = u /\ inbox[2][k].name \in RoomEvents

\* The instances of a card definition.
InstancesOfCard(card_id) ==
    {i \in Indices(player_cards) : player_cards[i].card_id = card_id}

\* The 'Card Created' log rows of a card definition.
LogOfCard(card_id) ==
    {i \in Indices(combat_log) :
        /\ combat_log[i].card_id = card_id
        /\ combat_log[i].action_type = "Card Created"}

\* C24: when the instance insert of a create fails, the cards row it
\* inserted stays, without instance and without log row; when its log
\* insert fails, the cards row and the instance stay, without log row; in
\* both cases the step changes no table, the caller gets one 'error', and
\* no socket ever holds a 'server:cardCreated' of that create.
C24_CreateNotAtomic ==
    /\ [][\A t \in TaskIds :
            ( /\ Running(t, "create", tasks[t].pc)
              /\ tasks[t].pc \in {"insertPlayerCard", "insertLog"}
              /\ tasks'[t].exit = "caught" ) =>
               /\ db' = db
               /\ ErrorToCaller(t)
               /\ tasks[t].newCardId \in Indices(cards)
               /\ cards[tasks[t].newCardId] = CardRow(tasks[t].cardData)
               /\ LogOfCard(tasks[t].newCardId) = {}
               /\ IF tasks[t].pc = "insertPlayerCard"
                  THEN InstancesOfCard(tasks[t].newCardId) = {}
                  ELSE InstancesOfCard(tasks[t].newCardId)
                          = {tasks[t].newPlayerCardId}]_vars
    /\ [](\A t \in Indices(tasks) :
            (tasks[t].kind = "create" /\ tasks[t].exit = "caught") =>
               /\ \A c \in Conns : Received(c, "server:cardCreated", t) = {}
               /\ tasks[t].newCardId # 0 =>
                     /\ tasks[t].newCardId \in Indices(cards)
                     /\ LogOfCard(tasks[t].newCardId) = {}
                     /\ InstancesOfCard(tasks[t].newCardId)
                           = IF tasks[t].newPlayerCardId = 0 THEN {}
                             ELSE {tasks[t].newPlayerCardId})

\* One create failed at its instance insert and one at its log insert, with
\* a socket in the room: two cards rows stay, one of them with an instance,
\* and no card-created of either was delivered.
C24_Witness ==
    \E a, b \in Indices(tasks) :
       /\ tasks[a].kind = "create" /\ tasks[a].exit = "caught"
       /\ tasks[a].newCardId # 0 /\ tasks[a].newPlayerCardId = 0
       /\ tasks[b].kind = "create" /\ tasks[b].exit = "caught"
       /\ tasks[b].newPlayerCardId # 0
       /\ <<1, 1>> \in rooms /\ 1 \in connected
       /\ InstancesOfCard(tasks[a].newCardId) = {}
       /\ InstancesOfCard(tasks[b].newCardId) = {tasks[b].newPlayerCardId}
       /\ Received(tasks[a].conn, "error", a) # {}
       /\ Received(tasks[b].conn, "error", b) # {}

\* C25: no step removes an instance or changes the owner, definition or
\* session of one; a step of a move or play handler changes no users,
\* game_sessions, player_sessions or cards row, adds no instance, and
\* leaves every instance but the one it cites as it is.
C25_MoveFrame ==
    /\ [][/\ Len(player_cards') >= Len(player_cards)
          /\ \A i \in Indices(player_cards) :
                /\ player_cards'[i].user_id = player_cards[i].user_id
                /\ player_cards'[i].card_id = player_cards[i].card_id
                /\ player_cards'[i].session_id = player_cards[i].session_id]_vars
    /\ [][\A t \in TaskIds :
            ( /\ t \in Indices(tasks)
              /\ tasks[t].kind \in {"move", "play"}
              /\ tasks'[t] # tasks[t] ) =>
               /\ users' = users
               /\ game_sessions' = game_sessions
               /\ player_sessions' = player_sessions
               /\ cards' = cards
               /\ Len(player_cards') = Len(player_cards)
               /\ \A i \in Indices(player_cards) :
                     i # tasks[t].playerCardId =>
                        player_cards'[i] = player_cards[i]]_vars

\* alice owns two instances in session 1; her move or play of instance 1
\* has returned and instance 2 is as it was created.
C25_Witness ==
    \E t \in Indices(tasks) :
       /\ tasks[t].kind \in {"move", "play"} /\ tasks[t].exit = "ok"
       /\ ~tasks[t].scripted
       /\ Len(player_cards) = 2
       /\ player_cards[2].user_id = player_cards[1].user_id
       /\ player_cards[2].session_id = player_cards[1].session_id
       /\ player_cards[1].location \in {"Hand", "DiscardPile"}
       /\ Placement(player_cards[2])
             = [location |-> "CreatedCardStorage", slot_id |-> Null,
                is_active |-> FALSE]
       /\ player_cards[2].card_id = 2

\* C26: the lookup of a move or play that finds no users row of the cited
\* username changes no table and returns with one 'error' to the caller,
\* and no room event of that handler is ever delivered; a users row is
\* added only by the user insert of a join or create, and no step changes
\* or removes one.
C26_UnknownUser ==
    /\ [][\A t \in TaskIds :
            ( /\ Leaves(t, "move", "selectUser") \/ Leaves(t, "play", "selectUser")
              /\ SelectUsers(tasks[t].userId) = {} ) =>
               /\ db' = db
               /\ rooms' = rooms
               /\ tasks'[t].exit = "rejected"
               /\ ErrorToCaller(t)]_vars
    /\ [](\A t \in Indices(tasks) :
            ( /\ tasks[t].kind \in {"move", "play"}
              /\ tasks[t].exit = "rejected"
              /\ tasks[t].user_id = 0 ) =>
               \A c \in Conns : \A k \in 1..Len(inbox[c]) :
                  inbox[c][k].task = t =>
                     inbox[c][k].name = "error" /\ c = tasks[t].conn)
    /\ [][/\ Len(users') >= Len(users)
          /\ SubSeq(users', 1, Len(users)) = users
          /\ Len(users') > Len(users) =>
                \E t \in Indices(tasks) :
                   /\ Leaves(t, "join", "insertUser")
                         \/ Leaves(t, "create", "insertUser")
                   /\ users' = Append(users, tasks[t].userId)]_vars

\* bob moved and played before any users row of bob existed: both were
\* rejected with an error to his socket, no user bob exists, and alice's
\* instance and the log are as her create left them.
C26_Witness ==
    \E m, p \in Indices(tasks) :
       /\ tasks[m].kind = "move" /\ tasks[p].kind = "play"
       /\ tasks[m].userId = "bob" /\ tasks[p].userId = "bob"
       /\ tasks[m].exit = "rejected" /\ tasks[p].exit = "rejected"
       /\ tasks[m].user_id = 0 /\ tasks[p].user_id = 0
       /\ SelectUsers("bob") = {}
       /\ users = <<"alice">>
       /\ Received(2, "error", m) # {} /\ Received(2, "error", p) # {}
       /\ Len(player_cards) = 1
       /\ player_cards[1].location = "CreatedCardStorage"
       /\ Len(combat_log) = 1

\* C27: the catalog query of a join returns the cards rows of the lowest
\* ids in ascending order, all of them up to 50 and the first 50 beyond,
\* whatever session their instances are in, and the snapshot carries these
\* definitions in that order.
C27_Catalog ==
    /\ [][\A t \in TaskIds :
            Leaves(t, "join", "fetchCatalog") =>
               LET rows == tasks'[t].allCardDefinitions
               IN  /\ Len(rows) = IF Len(cards) <= 50 THEN Len(cards) ELSE 50
                   /\ \A k \in 1..Len(rows) :
                         /\ rows[k].card_id = k
                         /\ rows[k].card_name = cards[k].card_name
                         /\ rows[k].is_active = cards[k].is_active]_vars
    /\ [](\A c \in Conns : \A k \in 1..Len(inbox[c]) :
            inbox[c][k].name = "server:gameState" =>
               LET catalog == inbox[c][k].payload.allCardDefinitions
               IN  /\ Len(catalog) = IF Len(cards) <= 50 THEN Len(cards) ELSE 50
                   /\ \A i \in 1..Len(catalog) :
                         /\ catalog[i].card_id = i
                         /\ catalog[i].card_name = cards[i].card_name)

\* The store holds 52 definitions; bob's snapshot of session 1 lists those
\* of ids 1 to 50, the ones whose instance is in session 2 among them.
C27_Witness ==
    /\ Len(cards) = 52
    /\ \E k \in Received(2, "server:gameState", 1) :
          LET snapshot == inbox[2][k].payload
          IN  /\ snapshot.sessionId = 1
              /\ Len(snapshot.allCardDefinitions) = 50
              /\ snapshot.allCardDefinitions[50].card_id = 50
              /\ player_cards[50].card_id = 50
              /\ player_cards[50].session_id = 2
              /\ \A i \in 1..Len(snapshot.cards) :
                    snapshot.cards[i].card_id # 50

\* The joins that have delivered their snapshot of session sid.
Joined(sid) ==
    {j \in Indices(tasks) :
        /\ tasks[j].kind = "join"
        /\ tasks[j].numerical_session_id = sid
        /\ Received(tasks[j].conn, "server:gameState", j) # {}}

\* The instances in the snapshot of join j.
SnapshotInstances(j) ==
    UNION {{inbox[tasks[j].conn][k].payload.cards[i].player_card_id :
               i \in 1..Len(inbox[tasks[j].conn][k].payload.cards)} :
           k \in Received(tasks[j].conn, "server:gameState", j)}

\* The instances of which connection c has received a card-created event.
Announced(c) ==
    {inbox[c][k].payload.player_card_id :
        k \in {n \in 1..Len(inbox[c]) : inbox[c][n].name = "server:cardCreated"}}

\* C28: when no query fails, the instance of every completed create of
\* session S is in the snapshot of every join of S that has delivered its
\* snapshot, or the joiner's connection has received its card-created
\* event, which it can only have received as a member of the room.
C28_NoLostCreate ==
    /\ [](\A t \in Indices(tasks) :
            (tasks[t].kind = "create" /\ tasks[t].exit = "ok") =>
               \A j \in Joined(tasks[t].sessionId) :
                  \/ tasks[t].newPlayerCardId \in SnapshotInstances(j)
                  \/ Received(tasks[j].conn, "server:cardCreated", t) # {})
    /\ [][\A c \in Conns :
            Announced(c)' # Announced(c) =>
               \E sid \in SessionIds : <<sid, c>> \in rooms]_vars

\* A join and a create of the same session overlapped; the instance is
\* not in the joiner's snapshot and the joiner's connection received the
\* card-created event of the create.
C28_Witness ==
    \E t \in Indices(tasks) :
       /\ tasks[t].kind = "create" /\ tasks[t].exit = "ok"
       /\ \E j \in Joined(tasks[t].sessionId) :
             /\ tasks[j].conn # tasks[t].conn
             /\ j \notin tasks[t].after
             /\ t \notin tasks[j].after
             /\ tasks[j].pc = "done"
             /\ tasks[t].newPlayerCardId \notin SnapshotInstances(j)
             /\ Received(tasks[j].conn, "server:cardCreated", t) # {}

\* What message m tells about the placement of instance i: the placements
\* of i in a snapshot, the placement in a card-moved or card-played event
\* of i, nothing otherwise.
About(m, i) ==
    IF m.name = "server:gameState"
    THEN {Placement(m.payload.cards[n]) :
             n \in {n \in 1..Len(m.payload.cards) :
                       m.payload.cards[n].player_card_id = i}}
    ELSE IF /\ m.name \in {"server:cardMoved", "server:cardPlayed"}
            /\ m.payload.player_card_id = i
         THEN {Placement(m.payload)}
         ELSE {}

\* The positions in the inbox of connection c of the last message about
\* instance i.
LastAbout(c, i) ==
    {k \in 1..Len(inbox[c]) :
        /\ About(inbox[c][k], i) # {}
        /\ \A n \in (k + 1)..Len(inbox[c]) : About(inbox[c][n], i) = {}}

\* Every handler has returned and none through its catch block.
Quiescent ==
    \A t \in Indices(tasks) :
       tasks[t].pc = "done" /\ tasks[t].exit # "caught"

\* C29: once all handlers have returned without persistence error, the
\* last snapshot, card-moved or card-played message that a connected socket
\* holds about an instance carries the persisted location, slot and active
\* flag of that instance.
C29_NeverStale ==
    Quiescent =>
       \A c \in connected : \A i \in Indices(player_cards) :
          \A k \in LastAbout(c, i) :
             About(inbox[c][k], i) = {Placement(player_cards[i])}

\* The positions in the inbox of connection c of the last card-moved event
\* of instance i.
LastMoved(c, i) ==
    {k \in 1..Len(inbox[c]) :
        /\ inbox[c][k].name = "server:cardMoved"
        /\ inbox[c][k].payload.player_card_id = i
        /\ \A n \in (k + 1)..Len(inbox[c]) :
              ~(/\ inbox[c][n].name = "server:cardMoved"
                /\ inbox[c][n].payload.player_card_id = i)}

\* Moves a and b of one instance overlapped and both have broadcast; no
\* other handler is running.
OverlappingMoves(a, b) ==
    /\ a < b
    /\ tasks[a].kind = "move" /\ tasks[b].kind = "move"
    /\ tasks[a].playerCardId = tasks[b].playerCardId
    /\ tasks[a].exit = "ok" /\ tasks[b].exit = "ok"
    /\ a \notin tasks[b].after
    /\ \A t \in Indices(tasks) : tasks[t].pc = "done"

\* C30: once two overlapping successful moves of one instance have
\* returned, the last card-moved event of the instance that each member of
\* the room holds carries the persisted location, slot and active flag.
C30_LastMovedIsPersisted ==
    \A a, b \in Indices(tasks) :
       OverlappingMoves(a, b) =>
          \A c \in Members(tasks[a].sessionId) :
             \A k \in LastMoved(c, tasks[a].playerCardId) :
                Placement(inbox[c][k].payload)
                   = Placement(player_cards[tasks[a].playerCardId])

\* C31: every card-played event that a socket holds carries location
\* "DiscardPile", slot null and active false.
C31_PlayedIsDiscarded ==
    \A c \in Conns : \A k \in 1..Len(inbox[c]) :
       inbox[c][k].name = "server:cardPlayed" =>
          Placement(inbox[c][k].payload)
             = [location |-> "DiscardPile", slot_id |-> Null,
                is_active |-> FALSE]

\* C32: the socket of a join holds at most one snapshot and at most one
\* 'error' of that join, never one of each, and one of the two once the
\* handler has returned with the socket still connected.
C32_SnapshotOrError ==
    \A t \in Indices(tasks) :
       tasks[t].kind = "join" =>
          LET snapshots == Received(tasks[t].conn, "server:gameState", t)
              errors == Received(tasks[t].conn, "error", t)
          IN  /\ Cardinality(snapshots) + Cardinality(errors) <= 1
              /\ (tasks[t].pc = "done" /\ tasks[t].conn \in connected) =>
                    Cardinality(snapshots) + Cardinality(errors) = 1

\* The socket of handler t holds an event of handler t: its snapshot, its
\* own broadcast or its 'error'.
Responded(t) ==
    \E k \in 1..Len(inbox[tasks[t].conn]) : inbox[tasks[t].conn][k].task = t

\* C33: every request's handler eventually returns, and by then the
\* requesting socket, unless it has disconnected, holds an event of that
\* handler.
C33_EveryRequestAnswered ==
    \A t \in TaskIds :
       (t \in Indices(tasks)) ~>
          /\ t \in Indices(tasks)
          /\ tasks[t].pc = "done"
          /\ Responded(t) \/ tasks[t].conn \notin connected

\* ----------------------------------------------------- definition fields

\* The optional attributes of a card-data object followed here: the five
\* suit modifiers and one of the other attributes, which the handlers all
\* treat alike (cardData.key || null into the column key, row.key out).
AttributeKeys ==
    {"card_suit_might_modifier", "card_suit_agility_modifier",
     "card_suit_guts_modifier", "card_suit_intellect_modifier",
     "card_suit_rally_modifier", "card_weapon_damage"}

\* JavaScript values, written as their literals; "undefined" is the value
\* of a property that the object does not have.
AttributeValues == {"undefined", "0", "2"}

\* The card-data objects: every choice of the attributes, each absent or
\* given.
FullCardDatas == [AttributeKeys -> AttributeValues]

\* obj[key] of JavaScript.
Get(obj, key) == IF key \in DOMAIN obj THEN obj[key] ELSE "undefined"

\* value || null
OrNull(value) ==
    IF value \in {"undefined", "null", "0"} THEN "null" ELSE value

\* The attribute columns of the row that INSERT INTO cards writes.
CardColumns(cardData) ==
    [card_suit_might_modifier |->
        OrNull(Get(cardData, "card_suit_might_modifier")),
     card_suit_agility_modifier |->
        OrNull(Get(cardData, "card_suit_agility_modifier")),
     card_suit_guts_modifier |->
        OrNull(Get(cardData, "card_suit_guts_modifier")),
     card_suit_intellect_modifier |->
        OrNull(Get(cardData, "card_intellect_modifier")),
     card_suit_rally_modifier |->
        OrNull(Get(cardData, "card_rally_modifier")),
     card_weapon_damage |->
        OrNull(Get(cardData, "card_weapon_damage"))]

\* The attributes of an instance entry of gameState.cards, from a row pc
\* of SELECT pc.*, c.*.
SnapshotAttributes(pc) ==
    [card_suit_might_modifier |-> Get(pc, "card_suit_might_modifier"),
     card_suit_agility_modifier |-> Get(pc, "card_suit_agility_modifier"),
     card_suit_guts_modifier |-> Get(pc, "card_suit_guts_modifier"),
     card_suit_intellect_modifier |-> Get(pc, "card_intellect_modifier"),
     card_suit_rally_modifier |-> Get(pc, "card_rally_modifier"),
     card_weapon_damage |-> Get(pc, "card_weapon_damage")]

\* The attributes of updatedCardData, from the refetched row.
MovedAttributes(row) ==
    [card_suit_might_modifier |-> Get(row, "card_suit_might_modifier"),
     card_suit_agility_modifier |-> Get(row, "card_suit_agility_modifier"),
     card_suit_guts_modifier |-> Get(row, "card_guts_modifier"),
     card_suit_intellect_modifier |-> Get(row, "card_intellect_modifier"),
     card_suit_rally_modifier |-> Get(row, "card_rally_modifier"),
     card_weapon_damage |-> Get(row, "card_weapon_damage")]

\* The attributes of playedCardData, from the refetched row.
PlayedAttributes(row) ==
    [card_suit_might_modifier |-> Get(row, "card_suit_might_modifier"),
     card_suit_agility_modifier |-> Get(row, "card_agility_modifier"),
     card_suit_guts_modifier |-> Get(row, "card_guts_modifier"),
     card_suit_intellect_modifier |-> Get(row, "card_intellect_modifier"),
     card_suit_rally_modifier |-> Get(row, "card_rally_modifier"),
     card_weapon_damage |-> Get(row, "card_weapon_damage")]

\* A client holds a card-data object that it sends with client:createCard;
\* only the attributes of the definition are followed.
InitFields ==
    /\ \E cardData \in FullCardDatas : tasks = <<[cardData |-> cardData]>>
    /\ users = <<>>
    /\ game_sessions = <<>>
    /\ cards = <<>>
    /\ player_cards = <<>>
    /\ combat_log = <<>>
    /\ player_sessions = <<>>
    /\ rooms = {}
    /\ connected = Conns
    /\ inbox = [c \in Conns |-> <<>>]

\* The create handler inserts the definition.
FieldsInsertCard ==
    /\ cards = <<>>
    /\ cards' = <<CardColumns(tasks[1].cardData)>>
    /\ UNCHANGED <<users, game_sessions, player_cards, combat_log,
                   player_sessions, rooms, connected, inbox, tasks>>

\* A later join delivers the instance entry of its snapshot.
FieldsSnapshot ==
    /\ cards # <<>>
    /\ \A k \in 1..Len(inbox[1]) : inbox[1][k].name # "server:gameState"
    /\ inbox' = [inbox EXCEPT ![1] =
                    Append(@, Event("server:gameState", 1,
                                    SnapshotAttributes(cards[1])))]
    /\ UNCHANGED <<db, rooms, connected, tasks>>

\* A later move of the instance delivers its payload.
FieldsMoved ==
    /\ cards # <<>>
    /\ \A k \in 1..Len(inbox[1]) : inbox[1][k].name # "server:cardMoved"
    /\ inbox' = [inbox EXCEPT ![1] =
                    Append(@, Event("server:cardMoved", 1,
                                    MovedAttributes(cards[1])))]
    /\ UNCHANGED <<db, rooms, connected, tasks>>

\* A later play of the instance delivers its payload.
FieldsPlayed ==
    /\ cards # <<>>
    /\ \A k \in 1..Len(inbox[1]) : inbox[1][k].name # "server:cardPlayed"
    /\ inbox' = [inbox EXCEPT ![1] =
                    Append(@, Event("server:cardPlayed", 1,
                                    PlayedAttributes(cards[1])))]
    /\ UNCHANGED <<db, rooms, connected, tasks>>

NextFields ==
    \/ FieldsInsertCard
    \/ FieldsSnapshot
    \/ FieldsMoved
    \/ FieldsPlayed

SpecFields == InitFields /\ [][NextFields]_vars

\* C34: every attribute given in the card-data object is, under its key
\* and with its value, in the instance entry of the snapshot and in the
\* card-moved and card-played payloads, and an attribute that was absent is
\* null there.
C34_FieldsRoundTrip ==
    \A k \in 1..Len(inbox[1]) : \A key \in AttributeKeys :
       Get(inbox[1][k].payload, key)
          = IF tasks[1].cardData[key] = "undefined"
            THEN "null"
            ELSE tasks[1].cardData[key]

====
